---- MODULE Spec2Model ----
(***************************************************************************)
(* State-machine model of the hybrid chain/quorum replication protocol:    *)
(* the quorum (Paxos-style) coordinator, the chain coordinator, the node   *)
(* (local store and inbound message loop) and the dispatcher's read cache. *)
(* Several specifications share the variables; each one drives one part of *)
(* the program and leaves the other parts in their constructed state.      *)
(***************************************************************************)
EXTENDS Integers, Sequences, FiniteSets, TLC

\* ------------------------------------------------------------------ bounds
\* Proposals the coordinators may start, all together.
MaxProposals == 2
\* Single-node fast-path requests one coordinator may serve (caps the counters).
MaxFastOps == 5
\* Write requests the clients send to the chain coordinators, all together.
MaxWrites == 3
\* Of these, the writes sent while failures shorten the chain.
MaxRequestWrites == 1
\* Longest chain a recovery may build (handle_node_recovery only appends).
MaxChainLen == 3
\* Clock readings: the clock is read at 0, TickMicros, ..., MaxTicks * TickMicros.
MaxTicks == 3
\* Writes the dispatcher is sent.
MaxCacheWrites == 2
\* Dispatcher reads (caps h_reads),
\* beside QUORUM_ACCEPT messages and enable_caching calls, and on their own.
MaxCacheReads == 2
MaxDispatchReads == 3
\* Direct calls of the cache operations.
MaxCacheOps == 3
\* start_operation calls between two resets (caps total_operations).
MaxMetricOps == 4
\* Dispatcher reads and writes sent while the routing state changes.
MaxRoutedReads == 1
MaxRoutedWrites == 1
\* Writes sent to the head while its batch fills.
MaxBatchWrites == 3
\* Dispatcher reads and writes sent while the mode is selected.
MaxSelectionReads == 1
MaxSelectionWrites == 1
\* Calls of each of the two threads that call the dispatcher concurrently.
MaxConcurrentWrites == 2
MaxConcurrentReads == 2
\* Distance the dispatcher's active-node count moves from zero.
MaxNodeDrift == 3
TickMicros == 15000000

\* ----------------------------------------------------------------- domains
Nodes == {1, 2, 3}
\* Ids that failure and recovery calls name: the node itself, a peer, and an id
\* outside the three-node cluster.
MemberIds == {1, 2, 4}
\* The node whose dispatcher (HybridProtocol) is modelled.
HNode == 1
Keys == {"k1", "k2"}
Values == {"a", "b"}
\* A default-constructed std::string (QuorumState::value of a read proposal).
EmptyValue == ""
\* Marker for "key not in the map".
Absent == "<absent>"

VARIABLES
  \* QuorumReplication, one instance per node
  quorum_nodes, quorum_size, adaptive_quorum_enabled, next_proposal_number,
  active_proposals, successful_consensus, failed_consensus,
  fast_quorum_enabled, read_optimization_enabled,
  \* the thread that called QuorumReplication::process_read / process_write
  q_pc, q_cur, q_last,
  \* Node: the local store and the inbound queue
  data_store, message_queue,
  \* messages handed to Node::send_message and not yet received
  net,
  \* history: QUORUM_ACCEPTED replies sent, as <<acceptor, proposer, proposal>>
  accepted_replies,
  \* history: the last membership or sizing call each coordinator received
  q_call,
  \* history: what the last adjust_quorum_size_based_on_load call found and left
  q_adjust,
  \* calls counted against the bounds
  fast_ops,
  \* ChainReplication, one instance per node
  chain_order, my_position, batching_enabled, batch_size, write_batch, pending_writes,
  \* sequence number of the last write request a client sent
  ch_seq,
  \* history: what the last chain process_read / process_write call did
  ch_last,
  \* history: the last chain membership call each coordinator received
  ch_call,
  \* history: the chain writes applied to each node's store, in order
  applied,
  \* HybridProtocol on node 1: the read cache and its switch
  cache, caching_enabled,
  \* the clock, in ticks of TickMicros microseconds
  now,
  \* history: what the last dispatcher process_read call did
  h_last,
  \* history: per key, the cache holds an entry and a write of the key has
  \* passed an entry point since the entry was stored
  written_since,
  \* cache entries of keys outside Keys: per clock reading, how many of them
  \* were stored at that reading
  cache_others,
  \* HybridProtocol's counters of cache hits and misses
  cache_hits, cache_misses,
  \* history: the last two direct calls of the cache operations
  c_last, c_prev,
  \* PerformanceMonitor: the counters and the ids of the operations in progress
  total_operations, successful_operations, failed_operations, active_operations,
  \* Node::running_ and NetworkManager::running_ of each node
  running, nm_running,
  \* history: the number of messages the inbound queue held when stop() returned
  left_at_stop,
  \* the mutexes each calling thread holds, and the operation it is in
  held, lk_pc,
  \* a Message, its serialized form and the Message deserialized from that
  w_msg, w_data, w_out,
  \* HybridProtocol's routing switches, preferences and workload metrics
  adaptive_switching_enabled, intelligent_routing_enabled,
  read_preference, write_preference, current_metrics, current_mode,
  \* history: what the last dispatcher process_write call did
  h_wlast,
  \* HybridProtocol::switching_threshold_, in hundredths
  switching_threshold,
  \* HybridProtocol's counters of requests handed to each coordinator
  chain_operations, quorum_operations,
  \* the static counters of update_performance_metrics
  read_count, write_count,
  \* history: the dispatcher's process_read and process_write calls that returned
  h_reads, h_writes,
  \* a thread waits inside update_workload_metrics for metrics_mutex_, which
  \* it holds itself
  metrics_stuck,
  \* history: handle_network_partition switched the mode and no metrics
  \* update has selected another mode since
  h_partition,
  \* history: update_workload_metrics has returned and current_metrics_ is
  \* as that call left it
  h_snapshot,
  \* the threads inside the dispatcher's process_write and process_read:
  \* where each one is, and its request (with the value a read has fetched)
  cw_pc, cw_req, cr_pc, cr_req

qvars == <<quorum_nodes, quorum_size, adaptive_quorum_enabled, next_proposal_number,
           active_proposals, successful_consensus, failed_consensus,
           fast_quorum_enabled, read_optimization_enabled,
           q_pc, q_cur, q_last, accepted_replies, q_call, q_adjust, fast_ops>>

nodevars == <<data_store, message_queue, net>>

chvars == <<chain_order, my_position, batching_enabled, batch_size, write_batch,
            pending_writes, ch_seq, ch_last, ch_call, applied>>

cvars == <<cache, caching_enabled, now, h_last, written_since, cache_others,
           cache_hits, cache_misses, c_last, c_prev>>

mvars == <<total_operations, successful_operations, failed_operations,
           active_operations>>

lifevars == <<running, nm_running, left_at_stop>>

lockvars == <<held, lk_pc>>

wirevars == <<w_msg, w_data, w_out>>

rvars == <<adaptive_switching_enabled, intelligent_routing_enabled,
           read_preference, write_preference, current_metrics, current_mode,
           h_wlast>>

svars == <<switching_threshold, chain_operations, quorum_operations, read_count,
           write_count, h_reads, h_writes, metrics_stuck, h_partition, h_snapshot>>

ccvars == <<cw_pc, cw_req, cr_pc, cr_req>>

xvars == <<lifevars, lockvars, wirevars, rvars, svars, ccvars>>

vars == <<qvars, nodevars, chvars, cvars, mvars, xvars>>

\* ------------------------------------------------------------ sequence help
Contains(s, x) == \E i \in 1..Len(s) : s[i] = x

\* std::find: index of the first element equal to x, or Len(s)+1.
FirstIndex(s, x) ==
  IF Contains(s, x) THEN CHOOSE i \in 1..Len(s) : s[i] = x /\ \A j \in 1..(i-1) : s[j] # x
  ELSE Len(s) + 1

\* vector::erase(std::find(...)): drops the first occurrence of x.
EraseFirst(s, x) ==
  LET i == FirstIndex(s, x)
  IN  IF i > Len(s) THEN s ELSE SubSeq(s, 1, i-1) \o SubSeq(s, i+1, Len(s))

Range(s) == {s[i] : i \in 1..Len(s)}

Min(a, b) == IF a < b THEN a ELSE b
Max(a, b) == IF a > b THEN a ELSE b

\* ------------------------------------------------------- QuorumReplication
\* (total_nodes / 2) + 1 in QuorumState::has_majority and in the coordinator.
Majority(total_nodes) == (total_nodes \div 2) + 1

has_majority(state, total_nodes) ==
  Cardinality(state.promised_nodes) >= Majority(total_nodes)

has_accept_majority(state, total_nodes) ==
  Cardinality(state.accepted_nodes) >= Majority(total_nodes)

\* get_consensus_success_rate() < 0.8 (the rate is 0.0 when nothing was counted).
RateBelow80(n) ==
  LET total == successful_consensus[n] + failed_consensus[n]
  IN  total = 0 \/ 5 * successful_consensus[n] < 4 * total

\* get_consensus_success_rate() > 0.95
RateAbove95(n) ==
  LET total == successful_consensus[n] + failed_consensus[n]
  IN  total > 0 /\ 20 * successful_consensus[n] > 19 * total

calculate_optimal_quorum_size(nodes, n) ==
  LET base_size == Majority(Len(nodes))
  IN  IF RateBelow80(n) THEN Min(base_size + 1, Len(nodes))
      ELSE IF RateAbove95(n) THEN Max(base_size - 1, 3)
      ELSE base_size

\* The value adjust_quorum_size_based_on_load leaves in quorum_size_.
AdjustedSize(nodes, size, n) ==
  LET optimal_size == calculate_optimal_quorum_size(nodes, n)
  IN  IF optimal_size # size /\ optimal_size >= 3 THEN optimal_size ELSE size

\* quorum_size_ after handle_node_failure removed a member.
SizeAfterFailure(nodes, n) ==
  IF adaptive_quorum_enabled[n]
  THEN AdjustedSize(nodes, Majority(Len(nodes)), n)
  ELSE Majority(Len(nodes))

\* quorum_size_ after a membership change that does not adjust, with the
\* majority taken of the old member count (a stale-size slip).
SizeAfterChangeStale(nodes, n) == Majority(Len(quorum_nodes[n]))

\* quorum_size_ after handle_node_recovery added a member / update_quorum_nodes.
SizeAfterChange(nodes, n) == Majority(Len(nodes))

\* The band of get_consensus_success_rate() that calculate_optimal_quorum_size
\* tests: below 0.8, above 0.95, or neither.
RateClass(n) ==
  IF RateBelow80(n) THEN "below_0.80"
  ELSE IF RateAbove95(n) THEN "above_0.95"
  ELSE "between"

\* What a call of adjust_quorum_size_based_on_load found (the member count, the
\* band of the success rate, quorum_size_) and the quorum_size_ it left.
AdjustCall(nodes, size, n) ==
  [called |-> TRUE, total_nodes |-> Len(nodes), rate |-> RateClass(n),
   before |-> size, after |-> AdjustedSize(nodes, size, n)]

NoAdjustCall ==
  [called |-> FALSE, total_nodes |-> 0, rate |-> "none", before |-> 0, after |-> 0]

QFrameConsensus ==
  UNCHANGED <<next_proposal_number, active_proposals, successful_consensus,
              failed_consensus, fast_quorum_enabled, read_optimization_enabled,
              q_pc, q_cur, q_last, accepted_replies, fast_ops>>

QFrameMembership ==
  /\ QFrameConsensus
  /\ UNCHANGED <<nodevars, chvars, cvars, mvars, xvars>>

\* QuorumReplication::handle_node_failure on the coordinator's own state.
QuorumFailure(n, failed_node) ==
  /\ IF Contains(quorum_nodes[n], failed_node)
     THEN LET nodes == EraseFirst(quorum_nodes[n], failed_node)
          IN  /\ quorum_nodes' = [quorum_nodes EXCEPT ![n] = nodes]
              /\ quorum_size' = [quorum_size EXCEPT ![n] = SizeAfterFailure(nodes, n)]
              /\ q_call' = [q_call EXCEPT ![n] =
                              IF adaptive_quorum_enabled[n] THEN "failure_adaptive"
                              ELSE "failure"]
              /\ q_adjust' = [q_adjust EXCEPT ![n] =
                                IF adaptive_quorum_enabled[n]
                                THEN AdjustCall(nodes, Majority(Len(nodes)), n)
                                ELSE NoAdjustCall]
     ELSE /\ UNCHANGED <<quorum_nodes, quorum_size>>
          /\ q_call' = [q_call EXCEPT ![n] = "failure_nonmember"]
          /\ q_adjust' = [q_adjust EXCEPT ![n] = NoAdjustCall]
  /\ UNCHANGED adaptive_quorum_enabled
  /\ QFrameConsensus

QHandleNodeFailure(n, failed_node) ==
  /\ QuorumFailure(n, failed_node)
  /\ UNCHANGED <<nodevars, chvars, cvars, mvars, xvars>>

\* QuorumReplication::handle_node_recovery on the coordinator's own state.
QuorumRecovery(n, recovered_node) ==
  /\ IF ~Contains(quorum_nodes[n], recovered_node)
     THEN LET nodes == Append(quorum_nodes[n], recovered_node)
          IN  /\ quorum_nodes' = [quorum_nodes EXCEPT ![n] = nodes]
              /\ quorum_size' = [quorum_size EXCEPT ![n] = SizeAfterChange(nodes, n)]
              /\ q_call' = [q_call EXCEPT ![n] = "recovery"]
     ELSE /\ UNCHANGED <<quorum_nodes, quorum_size>>
          /\ q_call' = [q_call EXCEPT ![n] = "recovery_member"]
  /\ q_adjust' = [q_adjust EXCEPT ![n] = NoAdjustCall]
  /\ UNCHANGED adaptive_quorum_enabled
  /\ QFrameConsensus

QHandleNodeRecovery(n, recovered_node) ==
  /\ QuorumRecovery(n, recovered_node)
  /\ UNCHANGED <<nodevars, chvars, cvars, mvars, xvars>>

\* Member lists update_quorum_nodes is called with.
QuorumChoices == {<<1>>, <<1, 2>>, <<1, 2, 3>>, <<1, 2, 3, 4>>, <<1, 2, 3, 4, 5, 6, 7>>}

update_quorum_nodes(n, new_nodes) ==
  /\ quorum_nodes' = [quorum_nodes EXCEPT ![n] = new_nodes]
  /\ quorum_size' = [quorum_size EXCEPT ![n] = SizeAfterChange(new_nodes, n)]
  /\ q_call' = [q_call EXCEPT ![n] = "update"]
  /\ q_adjust' = [q_adjust EXCEPT ![n] = NoAdjustCall]
  /\ UNCHANGED adaptive_quorum_enabled
  /\ QFrameMembership

enable_adaptive_quorum(n, enable) ==
  /\ adaptive_quorum_enabled[n] # enable
  /\ adaptive_quorum_enabled' = [adaptive_quorum_enabled EXCEPT ![n] = enable]
  /\ UNCHANGED <<quorum_nodes, quorum_size, q_call, q_adjust>>
  /\ QFrameMembership

adjust_quorum_size_based_on_load(n) ==
  /\ quorum_size' = [quorum_size EXCEPT ![n] =
                       AdjustedSize(quorum_nodes[n], quorum_size[n], n)]
  /\ q_call' = [q_call EXCEPT ![n] = "adjust"]
  /\ q_adjust' = [q_adjust EXCEPT ![n] =
                    AdjustCall(quorum_nodes[n], quorum_size[n], n)]
  /\ UNCHANGED <<quorum_nodes, adaptive_quorum_enabled>>
  /\ QFrameMembership

\* ---- messages
Msg(type, sender, receiver, seq, key, value) ==
  [type |-> type, sender |-> sender, receiver |-> receiver,
   seq |-> seq, key |-> key, value |-> value]

\* Node::send_message hands the messages to NetworkManager::send_message and
\* drops its result: a manager that is not running takes none of them.
Transmit(n, msgs) == IF nm_running[n] THEN msgs ELSE {}

\* select_optimal_quorum_subset: the whole list, or its first quorum_size_ ids.
select_optimal_quorum_subset(n) ==
  IF Len(quorum_nodes[n]) <= quorum_size[n]
  THEN quorum_nodes[n]
  ELSE SubSeq(quorum_nodes[n], 1, quorum_size[n])

\* The QUORUM_PREPARE messages send_prepare_messages hands to the node.
send_prepare_messages(n, proposal_number, key) ==
  LET target_nodes == IF adaptive_quorum_enabled[n]
                      THEN select_optimal_quorum_subset(n)
                      ELSE quorum_nodes[n]
  IN  {Msg("QUORUM_PREPARE", n, t, proposal_number, key, EmptyValue) :
         t \in Range(target_nodes) \ {n}}

\* The QUORUM_ACCEPT messages send_accept_messages hands to the node.
send_accept_messages(n, proposal_number, key, value) ==
  {Msg("QUORUM_ACCEPT", n, t, proposal_number, key, value) :
     t \in Range(quorum_nodes[n]) \ {n}}

NewState(pn, key, value) ==
  [proposal_number |-> pn, phase |-> "PREPARE", key |-> key, value |-> value,
   promised_nodes |-> {}, accepted_nodes |-> {}]

\* map insert / erase on active_proposals_
PutProposal(n, pn, state) ==
  [p \in (DOMAIN active_proposals[n]) \cup {pn} |->
     IF p = pn THEN state ELSE active_proposals[n][p]]

\* The erase left out: the table as it was.
EraseProposalSkipped(n, pn) == active_proposals[n]

EraseProposal(n, pn) ==
  [p \in (DOMAIN active_proposals[n]) \ {pn} |-> active_proposals[n][p]]

\* Members of n's current quorum list that have sent QUORUM_ACCEPTED for n's
\* proposal pn.
MembersReplied(n, pn) ==
  {m \in Range(quorum_nodes[n]) : <<m, n, pn>> \in accepted_replies}

\* What a finished process_read / process_write call returned, with the member
\* count and the number of members that had replied QUORUM_ACCEPTED by then.
Returned(n, op, path, success, pn, key, value) ==
  [op |-> op, path |-> path, success |-> success, pn |-> pn, key |-> key,
   value |-> value, total_nodes |-> Len(quorum_nodes[n]),
   replied |-> Cardinality(MembersReplied(n, pn))]

NoCall == [op |-> "none", path |-> "none", success |-> FALSE, pn |-> 0,
           key |-> EmptyValue, value |-> EmptyValue, total_nodes |-> 0, replied |-> 0]

\* Proposals started so far by all coordinators.
RECURSIVE ProposalsStarted(_)
ProposalsStarted(S) ==
  IF S = {} THEN 0
  ELSE LET n == CHOOSE x \in S : TRUE
       IN  (next_proposal_number[n] - 1) + ProposalsStarted(S \ {n})

QFrameConfigOnly ==
  UNCHANGED <<quorum_nodes, quorum_size, adaptive_quorum_enabled,
              fast_quorum_enabled, read_optimization_enabled, q_call, q_adjust>>

QFrameConfig ==
  /\ QFrameConfigOnly
  /\ UNCHANGED <<message_queue, chvars, cvars, mvars, xvars>>

\* process_write, quorum of one member, with a proposal number drawn first.
WriteSingleViaProposal(n, key, value) ==
  /\ q_pc[n] = "idle"
  /\ Len(quorum_nodes[n]) = 1
  /\ fast_ops[n] < MaxFastOps
  /\ fast_ops' = [fast_ops EXCEPT ![n] = @ + 1]
  /\ next_proposal_number' = [next_proposal_number EXCEPT ![n] = @ + 1]
  /\ data_store' = [data_store EXCEPT ![n][key] = value]
  /\ successful_consensus' = [successful_consensus EXCEPT ![n] = @ + 1]
  /\ q_last' = [q_last EXCEPT ![n] = Returned(n, "write", "single", TRUE, 0, key, value)]
  /\ UNCHANGED <<active_proposals, failed_consensus, q_pc, q_cur, net, accepted_replies>>
  /\ QFrameConfigOnly

\* process_write, quorum of one member: straight to the local store.
WriteSingle(n, key, value) ==
  /\ q_pc[n] = "idle"
  /\ Len(quorum_nodes[n]) = 1
  /\ fast_ops[n] < MaxFastOps
  /\ fast_ops' = [fast_ops EXCEPT ![n] = @ + 1]
  /\ data_store' = [data_store EXCEPT ![n][key] = value]
  /\ successful_consensus' = [successful_consensus EXCEPT ![n] = @ + 1]
  /\ q_last' = [q_last EXCEPT ![n] = Returned(n, "write", "single", TRUE, 0, key, value)]
  /\ UNCHANGED <<next_proposal_number, active_proposals, failed_consensus,
                 q_pc, q_cur, net, accepted_replies>>
  /\ QFrameConfigOnly

process_write_single(n, key, value) ==
  /\ WriteSingle(n, key, value)
  /\ UNCHANGED <<message_queue, chvars, cvars, mvars, xvars>>

\* process_write, larger quorum: initiate_consensus up to the polling loop.
process_write_start(n, key, value) ==
  /\ q_pc[n] = "idle"
  /\ Len(quorum_nodes[n]) # 1
  /\ ProposalsStarted(Nodes) < MaxProposals
  /\ LET pn == next_proposal_number[n]
     IN  /\ next_proposal_number' = [next_proposal_number EXCEPT ![n] = pn + 1]
         /\ active_proposals' = [active_proposals EXCEPT ![n] =
                                   PutProposal(n, pn, NewState(pn, key, value))]
         /\ net' = net \cup Transmit(n, send_prepare_messages(n, pn, key))
         /\ q_pc' = [q_pc EXCEPT ![n] = "write_wait"]
         /\ q_cur' = [q_cur EXCEPT ![n] = [pn |-> pn, key |-> key, value |-> value]]
  /\ UNCHANGED <<successful_consensus, failed_consensus, q_last, data_store,
                 accepted_replies, fast_ops>>
  /\ QFrameConfig

\* The polling loop of initiate_consensus finds COMMIT with an accept majority.
CommitReady(n, pn) ==
  /\ pn \in DOMAIN active_proposals[n]
  /\ active_proposals[n][pn].phase = "COMMIT"
  /\ has_accept_majority(active_proposals[n][pn], Len(quorum_nodes[n]))

process_write_commit(n) ==
  /\ q_pc[n] = "write_wait"
  /\ CommitReady(n, q_cur[n].pn)
  /\ data_store' = [data_store EXCEPT ![n][q_cur[n].key] = q_cur[n].value]
  /\ active_proposals' = [active_proposals EXCEPT ![n] = EraseProposal(n, q_cur[n].pn)]
  /\ successful_consensus' = [successful_consensus EXCEPT ![n] = @ + 1]
  /\ q_last' = [q_last EXCEPT ![n] =
                  Returned(n, "write", "consensus", TRUE, q_cur[n].pn, q_cur[n].key, q_cur[n].value)]
  /\ q_pc' = [q_pc EXCEPT ![n] = "idle"]
  /\ UNCHANGED <<next_proposal_number, failed_consensus, q_cur, net,
                 accepted_replies, fast_ops>>
  /\ QFrameConfig

\* The polling loop of initiate_consensus runs past operation_timeout_.
process_write_timeout(n) ==
  /\ q_pc[n] = "write_wait"
  /\ active_proposals' = [active_proposals EXCEPT ![n] = EraseProposal(n, q_cur[n].pn)]
  /\ failed_consensus' = [failed_consensus EXCEPT ![n] = @ + 1]
  /\ q_last' = [q_last EXCEPT ![n] =
                  Returned(n, "write", "consensus", FALSE, q_cur[n].pn, q_cur[n].key, q_cur[n].value)]
  /\ q_pc' = [q_pc EXCEPT ![n] = "idle"]
  /\ UNCHANGED <<next_proposal_number, successful_consensus, q_cur, data_store, net,
                 accepted_replies, fast_ops>>
  /\ QFrameConfig

\* process_read, quorum of one member: straight to the local store.
ReadSingle(n, key) ==
  /\ q_pc[n] = "idle"
  /\ Len(quorum_nodes[n]) = 1
  /\ fast_ops[n] < MaxFastOps
  /\ fast_ops' = [fast_ops EXCEPT ![n] = @ + 1]
  /\ IF data_store[n][key] # Absent
     THEN /\ successful_consensus' = [successful_consensus EXCEPT ![n] = @ + 1]
          /\ UNCHANGED failed_consensus
          /\ q_last' = [q_last EXCEPT ![n] =
                          Returned(n, "read", "single", TRUE, 0, key, data_store[n][key])]
     ELSE /\ failed_consensus' = [failed_consensus EXCEPT ![n] = @ + 1]
          /\ UNCHANGED successful_consensus
          /\ q_last' = [q_last EXCEPT ![n] =
                          Returned(n, "read", "single", FALSE, 0, key, EmptyValue)]
  /\ UNCHANGED <<next_proposal_number, active_proposals, q_pc, q_cur, data_store,
                 net, accepted_replies>>
  /\ QFrameConfigOnly

process_read_single(n, key) ==
  /\ ReadSingle(n, key)
  /\ UNCHANGED <<message_queue, chvars, cvars, mvars, xvars>>

\* can_use_fast_path for a READ_REQUEST with a non-empty key.
can_use_fast_path(n) == fast_quorum_enabled[n]

\* process_read, larger quorum, read optimisation: the local value, no consensus.
process_read_fast_path(n, key) ==
  /\ q_pc[n] = "idle"
  /\ Len(quorum_nodes[n]) # 1
  /\ read_optimization_enabled[n] /\ can_use_fast_path(n)
  /\ data_store[n][key] # Absent
  /\ q_last' = [q_last EXCEPT ![n] =
                  Returned(n, "read", "fast_path", TRUE, 0, key, data_store[n][key])]
  /\ UNCHANGED <<next_proposal_number, active_proposals, successful_consensus,
                 failed_consensus, q_pc, q_cur, data_store, net, accepted_replies,
                 q_call, fast_ops>>
  /\ QFrameConfig

\* process_read, larger quorum: the read proposal up to the polling loop.
process_read_start(n, key) ==
  /\ q_pc[n] = "idle"
  /\ Len(quorum_nodes[n]) # 1
  /\ ~(read_optimization_enabled[n] /\ can_use_fast_path(n) /\ data_store[n][key] # Absent)
  /\ ProposalsStarted(Nodes) < MaxProposals
  /\ LET pn == next_proposal_number[n]
     IN  /\ next_proposal_number' = [next_proposal_number EXCEPT ![n] = pn + 1]
         /\ active_proposals' = [active_proposals EXCEPT ![n] =
                                   PutProposal(n, pn, NewState(pn, key, EmptyValue))]
         /\ net' = net \cup Transmit(n, send_prepare_messages(n, pn, key))
         /\ q_pc' = [q_pc EXCEPT ![n] = "read_wait"]
         /\ q_cur' = [q_cur EXCEPT ![n] = [pn |-> pn, key |-> key, value |-> EmptyValue]]
  /\ UNCHANGED <<successful_consensus, failed_consensus, q_last, data_store,
                 accepted_replies, fast_ops>>
  /\ QFrameConfig

\* The polling loop of process_read finds a promise majority.
process_read_majority(n) ==
  /\ q_pc[n] = "read_wait"
  /\ q_cur[n].pn \in DOMAIN active_proposals[n]
  /\ has_majority(active_proposals[n][q_cur[n].pn], Len(quorum_nodes[n]))
  /\ active_proposals' = [active_proposals EXCEPT ![n] = EraseProposal(n, q_cur[n].pn)]
  /\ IF data_store[n][q_cur[n].key] # Absent
     THEN /\ successful_consensus' = [successful_consensus EXCEPT ![n] = @ + 1]
          /\ UNCHANGED failed_consensus
          /\ q_last' = [q_last EXCEPT ![n] =
                          Returned(n, "read", "consensus", TRUE, q_cur[n].pn, q_cur[n].key,
                                   data_store[n][q_cur[n].key])]
     ELSE /\ failed_consensus' = [failed_consensus EXCEPT ![n] = @ + 1]
          /\ UNCHANGED successful_consensus
          /\ q_last' = [q_last EXCEPT ![n] =
                          Returned(n, "read", "consensus", FALSE, q_cur[n].pn, q_cur[n].key,
                                   EmptyValue)]
  /\ q_pc' = [q_pc EXCEPT ![n] = "idle"]
  /\ UNCHANGED <<next_proposal_number, q_cur, data_store, net, accepted_replies, fast_ops>>
  /\ QFrameConfig

\* The polling loop of process_read runs past operation_timeout_.
process_read_timeout(n) ==
  /\ q_pc[n] = "read_wait"
  /\ active_proposals' = [active_proposals EXCEPT ![n] = EraseProposal(n, q_cur[n].pn)]
  /\ failed_consensus' = [failed_consensus EXCEPT ![n] = @ + 1]
  /\ q_last' = [q_last EXCEPT ![n] =
                  Returned(n, "read", "consensus", FALSE, q_cur[n].pn, q_cur[n].key, EmptyValue)]
  /\ q_pc' = [q_pc EXCEPT ![n] = "idle"]
  /\ UNCHANGED <<next_proposal_number, successful_consensus, q_cur, data_store, net,
                 accepted_replies, fast_ops>>
  /\ QFrameConfig

\* ---- Paxos message handlers, each called with a message that was sent
QFrameHandler ==
  /\ UNCHANGED <<next_proposal_number, successful_consensus, failed_consensus,
                 q_pc, q_cur, q_last, fast_ops>>
  /\ QFrameConfig

handle_prepare(m) ==
  /\ m.type = "QUORUM_PREPARE" /\ m.receiver \in Nodes
  /\ net' = (net \ {m}) \cup
             Transmit(m.receiver, {Msg("QUORUM_PROMISE", m.receiver, m.sender, m.seq,
                                       EmptyValue, EmptyValue)})
  /\ UNCHANGED <<active_proposals, data_store, accepted_replies>>
  /\ QFrameHandler

\* The proposal after handle_promise recorded the sender.
Promised(state, sender, total_nodes) ==
  LET s1 == [state EXCEPT !.promised_nodes = @ \cup {sender}]
  IN  IF has_majority(s1, total_nodes) THEN [s1 EXCEPT !.phase = "ACCEPT"] ELSE s1

handle_promise(m) ==
  /\ m.type = "QUORUM_PROMISE" /\ m.receiver \in Nodes
  /\ LET n == m.receiver
     IN  IF m.seq \in DOMAIN active_proposals[n]
         THEN LET s2 == Promised(active_proposals[n][m.seq], m.sender, Len(quorum_nodes[n]))
              IN  /\ active_proposals' = [active_proposals EXCEPT ![n][m.seq] = s2]
                  /\ net' = (net \ {m}) \cup
                       (IF has_majority(s2, Len(quorum_nodes[n]))
                        THEN Transmit(n, send_accept_messages(n, s2.proposal_number,
                                                              s2.key, s2.value))
                        ELSE {})
         ELSE /\ net' = net \ {m}
              /\ UNCHANGED active_proposals
  /\ UNCHANGED <<data_store, accepted_replies>>
  /\ QFrameHandler

handle_accept(m) ==
  /\ m.type = "QUORUM_ACCEPT" /\ m.receiver \in Nodes
  /\ data_store' = [data_store EXCEPT ![m.receiver][m.key] = m.value]
  /\ net' = (net \ {m}) \cup
             Transmit(m.receiver, {Msg("QUORUM_ACCEPTED", m.receiver, m.sender, m.seq,
                                       EmptyValue, EmptyValue)})
  /\ accepted_replies' = accepted_replies \cup {<<m.receiver, m.sender, m.seq>>}
  /\ written_since' = IF m.receiver = HNode /\ cache[m.key].present
                      THEN [written_since EXCEPT ![m.key] = TRUE]
                      ELSE written_since
  /\ UNCHANGED <<active_proposals, next_proposal_number, successful_consensus,
                 failed_consensus, q_pc, q_cur, q_last, fast_ops>>
  /\ QFrameConfigOnly
  /\ UNCHANGED <<message_queue, chvars, cache, caching_enabled, now, h_last,
                 cache_others, cache_hits, cache_misses, c_last, c_prev, mvars, xvars>>

\* The proposal after handle_accepted recorded the sender.
Accepted(state, sender, total_nodes) ==
  LET s1 == [state EXCEPT !.accepted_nodes = @ \cup {sender}]
  IN  IF has_accept_majority(s1, total_nodes) THEN [s1 EXCEPT !.phase = "COMMIT"] ELSE s1

handle_accepted(m) ==
  /\ m.type = "QUORUM_ACCEPTED" /\ m.receiver \in Nodes
  /\ LET n == m.receiver
     IN  IF m.seq \in DOMAIN active_proposals[n]
         THEN active_proposals' = [active_proposals EXCEPT ![n][m.seq] =
                                     Accepted(@, m.sender, Len(quorum_nodes[n]))]
         ELSE UNCHANGED active_proposals
  /\ net' = net \ {m}
  /\ UNCHANGED <<data_store, accepted_replies>>
  /\ QFrameHandler

\* -------------------------------------------------------- ChainReplication
\* Message(): sender_id(0), the sender of a client's request.
DefaultSenderId == 0
\* batch_size_(10) in the constructor.
DefaultBatchSize == 10

is_head(n) == my_position[n] = 0 /\ Len(chain_order[n]) > 0

is_tail(n) == my_position[n] = Len(chain_order[n]) - 1 /\ Len(chain_order[n]) > 0

\* chain_order_[my_position_ + 1], or 0 for "no successor" (positions count from 0).
get_successor(n) ==
  IF my_position[n] + 1 < Len(chain_order[n])
  THEN chain_order[n][my_position[n] + 2]
  ELSE 0

\* chain_order_[my_position_ - 1], or 0 for "no predecessor".
get_predecessor(n) ==
  IF my_position[n] > 0 THEN chain_order[n][my_position[n]] ELSE 0

\* find_my_position with the not-found branch leaving my_position_ at 0.
find_my_position_keep_zero(order, id) ==
  IF Contains(order, id) THEN FirstIndex(order, id) - 1 ELSE 0

\* The value find_my_position leaves in my_position_.
find_my_position(order, id) ==
  IF Contains(order, id) THEN FirstIndex(order, id) - 1 ELSE Len(order)

\* The node process_read forwards to, with front() taken for back().
ReadForwardTargetFront(n) == chain_order[n][1]

\* chain_order_.back(): the node process_read forwards to.
ReadForwardTarget(n) == chain_order[n][Len(chain_order[n])]

\* What a chain call did: the response, the length and last node of the chain
\* it saw (0 for the last node of an empty chain), the messages it handed to
\* Node::send_message, whether NetworkManager::send_message returned true for
\* them, and the number of Node::read calls it made.
ChainReturned(op, path, success, kind, req, order, sent, store_reads) ==
  [op |-> op, path |-> path, success |-> success, kind |-> kind,
   seq |-> req.seq, key |-> req.key, value |-> req.value,
   chain_len |-> Len(order),
   last_node |-> IF Len(order) > 0 THEN order[Len(order)] ELSE 0,
   sent |-> sent, transport_ok |-> nm_running[req.receiver],
   store_reads |-> store_reads]

NoChainCall ==
  [op |-> "none", path |-> "none", success |-> FALSE, kind |-> "none",
   seq |-> 0, key |-> EmptyValue, value |-> EmptyValue,
   chain_len |-> 0, last_node |-> 0, sent |-> {}, transport_ok |-> TRUE,
   store_reads |-> 0]

\* The same message handed to Node::send_message for another target.
SentTo(target, m) == [m EXCEPT !.receiver = target]

ChFrameConfig ==
  UNCHANGED <<chain_order, my_position, batching_enabled, batch_size, ch_call>>

ChFrameOthers == UNCHANGED <<qvars, cvars, mvars, xvars, message_queue>>

\* What process_read returns and sends at node n for the request req.
ChainReadResult(n, req) ==
  IF ~is_tail(n)
  THEN LET sent == IF Len(chain_order[n]) > 0
                   THEN {SentTo(ReadForwardTarget(n), req)}
                   ELSE {}
       IN  ChainReturned("read", "forward", FALSE, "none", req, chain_order[n], sent, 0)
  ELSE IF data_store[n][req.key] # Absent
       THEN ChainReturned("read", "tail", TRUE, "READ_RESPONSE",
                          [req EXCEPT !.value = data_store[n][req.key]],
                          chain_order[n], {}, 1)
       ELSE ChainReturned("read", "tail", FALSE, "READ_RESPONSE", req,
                          chain_order[n], {}, 1)

chain_process_read(n, key) ==
  LET req == Msg("READ_REQUEST", DefaultSenderId, n, 0, key, EmptyValue)
      res == ChainReadResult(n, req)
  IN  /\ ch_last' = [ch_last EXCEPT ![n] = res]
      /\ net' = net \cup Transmit(n, res.sent)
      /\ UNCHANGED <<data_store, write_batch, pending_writes, ch_seq, applied>>
      /\ ChFrameConfig
      /\ ChFrameOthers

\* The store after Node::write applied the writes of batch, first to last.
RECURSIVE ApplyAll(_, _)
ApplyAll(store, batch) ==
  IF batch = <<>> THEN store
  ELSE ApplyAll([store EXCEPT ![Head(batch).key] = Head(batch).value], Tail(batch))

\* The history entries of the writes of batch.
AppliedEntries(batch) ==
  [i \in 1..Len(batch) |-> [seq |-> batch[i].seq, key |-> batch[i].key,
                            value |-> batch[i].value]]

\* The CHAIN_FORWARD copies process_write_batch and forward_write send.
ForwardMsg(n, m) ==
  [SentTo(get_successor(n), m) EXCEPT !.type = "CHAIN_FORWARD", !.sender = n]

\* send_ack: CHAIN_ACK to the predecessor, or to the request's sender.
send_ack(n, req) ==
  {Msg("CHAIN_ACK", n,
       IF get_predecessor(n) # 0 THEN get_predecessor(n) ELSE req.sender,
       req.seq, EmptyValue, EmptyValue)}

\* The messages forward_write sends for req.
forward_write(n, req) ==
  IF get_successor(n) = 0 THEN send_ack(n, req) ELSE {ForwardMsg(n, req)}

\* The messages process_write_batch sends for the batch.
process_write_batch(n, batch) ==
  IF get_successor(n) # 0
  THEN {ForwardMsg(n, batch[i]) : i \in 1..Len(batch)}
  ELSE {}

\* process_write at node n for a client's request with the next sequence number.
ChainWrite(n, key, value) ==
  LET req == Msg("WRITE_REQUEST", DefaultSenderId, n, ch_seq + 1, key, value)
      order == chain_order[n]
  IN  /\ ch_seq < MaxWrites
      /\ ch_seq' = ch_seq + 1
      /\ IF ~is_head(n)
         THEN LET sent == IF Len(order) > 0 THEN {SentTo(order[1], req)} ELSE {}
              IN  /\ ch_last' = [ch_last EXCEPT ![n] =
                       ChainReturned("write", "forward", TRUE, "WRITE_RESPONSE", req,
                                     order, sent, 0)]
                  /\ net' = net \cup Transmit(n, sent)
                  /\ UNCHANGED <<data_store, write_batch, pending_writes, applied>>
         ELSE IF batching_enabled[n] /\ Len(write_batch[n]) < batch_size[n]
         THEN LET batch == Append(write_batch[n], req)
                  full == Len(batch) >= batch_size[n]
                  sent == IF full THEN process_write_batch(n, batch) ELSE {}
              IN  /\ write_batch' = [write_batch EXCEPT ![n] = IF full THEN <<>> ELSE batch]
                  /\ data_store' = IF full
                                   THEN [data_store EXCEPT ![n] = ApplyAll(@, batch)]
                                   ELSE data_store
                  /\ applied' = IF full
                                THEN [applied EXCEPT ![n] = @ \o AppliedEntries(batch)]
                                ELSE applied
                  /\ net' = net \cup Transmit(n, sent)
                  /\ ch_last' = [ch_last EXCEPT ![n] =
                       ChainReturned("write", "batched", TRUE, "WRITE_RESPONSE", req,
                                     order, sent, 0)]
                  /\ UNCHANGED pending_writes
         ELSE LET forwards == Len(order) > 1
                  sent == IF forwards THEN forward_write(n, req) ELSE {}
              IN  /\ data_store' = [data_store EXCEPT ![n][key] = value]
                  /\ applied' = [applied EXCEPT ![n] = @ \o AppliedEntries(<<req>>)]
                  /\ net' = net \cup Transmit(n, sent)
                  /\ pending_writes' = IF forwards /\ get_successor(n) # 0
                                       THEN [pending_writes EXCEPT ![n] = @ \cup {req.seq}]
                                       ELSE pending_writes
                  /\ ch_last' = [ch_last EXCEPT ![n] =
                       ChainReturned("write", "direct", TRUE, "WRITE_RESPONSE", req,
                                     order, sent, 0)]
                  /\ UNCHANGED write_batch
      /\ ChFrameConfig

chain_process_write(n, key, value) ==
  /\ ChainWrite(n, key, value)
  /\ ChFrameOthers

ChFrameData ==
  UNCHANGED <<write_batch, pending_writes, ch_seq, ch_last, applied, nodevars>>

enable_batching(n, enable) ==
  /\ batching_enabled[n] # enable
  /\ batching_enabled' = [batching_enabled EXCEPT ![n] = enable]
  /\ UNCHANGED <<chain_order, my_position, batch_size, ch_call>>
  /\ ChFrameData
  /\ UNCHANGED <<qvars, cvars, mvars, xvars>>

\* Sizes set_batch_size is called with.
BatchSizes == {1, 2}

set_batch_size(n, size) ==
  /\ batch_size[n] # size
  /\ batch_size' = [batch_size EXCEPT ![n] = size]
  /\ UNCHANGED <<chain_order, my_position, batching_enabled, ch_call>>
  /\ ChFrameData
  /\ UNCHANGED <<qvars, cvars, mvars, xvars>>

\* Chains update_chain_order and the constructor are called with.
ChainChoices == {<<>>, <<1, 2, 3>>, <<2, 3>>, <<2, 1>>}

update_chain_order(n, new_chain) ==
  /\ chain_order' = [chain_order EXCEPT ![n] = new_chain]
  /\ my_position' = [my_position EXCEPT ![n] = find_my_position(new_chain, n)]
  /\ ch_call' = [ch_call EXCEPT ![n] = "update"]
  /\ UNCHANGED <<batching_enabled, batch_size>>
  /\ ChFrameData
  /\ UNCHANGED <<qvars, cvars, mvars, xvars>>

ChFrameOwn ==
  UNCHANGED <<batching_enabled, batch_size, write_batch, pending_writes,
              ch_seq, ch_last, applied>>

\* ChainReplication::handle_node_failure on the coordinator's own state.
ChainFailure(n, failed_node) ==
  /\ IF Contains(chain_order[n], failed_node)
     THEN LET order == EraseFirst(chain_order[n], failed_node)
          IN  /\ chain_order' = [chain_order EXCEPT ![n] = order]
              /\ my_position' = [my_position EXCEPT ![n] = find_my_position(order, n)]
              /\ ch_call' = [ch_call EXCEPT ![n] = "failure"]
     ELSE /\ UNCHANGED <<chain_order, my_position>>
          /\ ch_call' = [ch_call EXCEPT ![n] = "failure_nonmember"]
  /\ ChFrameOwn

chain_handle_node_failure(n, failed_node) ==
  /\ ChainFailure(n, failed_node)
  /\ UNCHANGED <<nodevars, qvars, cvars, mvars, xvars>>

\* ChainReplication::handle_node_recovery on the coordinator's own state.
ChainRecovery(n, recovered_node) ==
  /\ Len(chain_order[n]) < MaxChainLen
  /\ LET order == Append(chain_order[n], recovered_node)
     IN  /\ chain_order' = [chain_order EXCEPT ![n] = order]
         /\ my_position' = [my_position EXCEPT ![n] = find_my_position(order, n)]
         /\ ch_call' = [ch_call EXCEPT ![n] = "recovery"]
  /\ ChFrameOwn

chain_handle_node_recovery(n, recovered_node) ==
  /\ ChainRecovery(n, recovered_node)
  /\ UNCHANGED <<nodevars, qvars, cvars, mvars, xvars>>

\* ---------------------------------------------------------- Node, inbound
\* Node::handle_message: a message that was sent reaches its target's queue.
handle_message(m) ==
  /\ m.receiver \in Nodes
  /\ message_queue' = [message_queue EXCEPT ![m.receiver] = Append(@, m)]
  /\ net' = net \ {m}
  /\ UNCHANGED <<data_store, qvars, chvars, cvars, mvars, xvars>>

\* message_processing_loop, while running_, pops the front message and
\* process_incoming_message deserializes it; no case of its switch calls a protocol.
process_incoming_message(n) ==
  /\ running[n]
  /\ message_queue[n] # <<>>
  /\ message_queue' = [message_queue EXCEPT ![n] = Tail(@)]
  /\ UNCHANGED <<data_store, net, qvars, chvars, cvars, mvars, xvars>>

\* Node::stop on a running node: running_ = false ends the loop at its next
\* test, with whatever the queue still holds; then the network manager stops.
stop(n) ==
  /\ running[n]
  /\ running' = [running EXCEPT ![n] = FALSE]
  /\ nm_running' = [nm_running EXCEPT ![n] = FALSE]
  /\ left_at_stop' = [left_at_stop EXCEPT ![n] = Len(message_queue[n])]
  /\ UNCHANGED <<qvars, nodevars, chvars, cvars, mvars, lockvars, wirevars, rvars,
                 svars, ccvars>>

\* Node::start on a stopped node: the network manager and a new loop thread.
start(n) ==
  /\ ~running[n]
  /\ running' = [running EXCEPT ![n] = TRUE]
  /\ nm_running' = [nm_running EXCEPT ![n] = TRUE]
  /\ UNCHANGED <<left_at_stop, qvars, nodevars, chvars, cvars, mvars, lockvars,
                 wirevars, rvars, svars, ccvars>>

\* ----------------------------------------------------------- HybridProtocol
\* cache_ttl_(30000000): 30 seconds in microseconds.
cache_ttl == 30000000
\* cache_.size() > 1000 in update_cache.
MaxCacheEntries == 1000

\* The clock reading, in microseconds.
current_time == now * TickMicros

NoEntry == [present |-> FALSE, value |-> EmptyValue, stored_at |-> 0]

\* The freshness test with <= for <.
CacheFreshInclusive(entry) == current_time - entry.stored_at <= cache_ttl

\* current_time - stored_at < cache_ttl_ in try_cache_read.
CacheFresh(entry) == current_time - entry.stored_at < cache_ttl

\* try_cache_read returns true.
try_cache_read(key) == cache[key].present /\ CacheFresh(cache[key])

\* cache_ after try_cache_read: an expired entry is erased.
CacheAfterTry(key) ==
  IF cache[key].present /\ ~CacheFresh(cache[key])
  THEN [cache EXCEPT ![key] = NoEntry]
  ELSE cache

PresentKeys(c) == {k \in Keys : c[k].present}

\* The clock readings an entry's stored_at can hold.
Ticks == 0..MaxTicks

\* The number of entries of keys outside Keys stored at readings 0..t.
RECURSIVE OthersUpTo(_, _)
OthersUpTo(o, t) == IF t < 0 THEN 0 ELSE o[t] + OthersUpTo(o, t - 1)

\* cache_.size()
CacheSize(c, o) == Cardinality(PresentKeys(c)) + OthersUpTo(o, MaxTicks)

\* The stored_at values of the entries of the map.
StoredAts(c, o) ==
  {c[k].stored_at : k \in PresentKeys(c)} \cup {t * TickMicros : t \in {u \in Ticks : o[u] > 0}}

\* The smallest stored_at of a non-empty map.
MinStoredAt(c, o) == CHOOSE x \in StoredAts(c, o) : \A y \in StoredAts(c, o) : x <= y

\* The largest stored_at of a non-empty map.
MaxStoredAt(c, o) == CHOOSE x \in StoredAts(c, o) : \A y \in StoredAts(c, o) : x >= y

\* The maps left by erasing one entry whose stored_at is at.
EraseOneStoredAt(c, o, at) ==
  {[cache |-> [c EXCEPT ![k] = NoEntry], others |-> o, evicted_at |-> at] :
     k \in {j \in PresentKeys(c) : c[j].stored_at = at}}
  \cup
  {[cache |-> c, others |-> [o EXCEPT ![t] = @ - 1], evicted_at |-> at] :
     t \in {u \in Ticks : o[u] > 0 /\ u * TickMicros = at}}

\* The cleanup with the entry of the largest stored_at erased.
EvictNewest(c, o) ==
  IF CacheSize(c, o) > MaxCacheEntries
  THEN EraseOneStoredAt(c, o, MaxStoredAt(c, o))
  ELSE {[cache |-> c, others |-> o, evicted_at |-> -1]}

\* The cleanup at the end of update_cache: when the map has grown past
\* MaxCacheEntries, the first entry in iteration order that no other entry
\* precedes in stored_at is erased. The iteration order of the unordered_map
\* is unspecified, so this is any entry of the smallest stored_at.
EvictOldest(c, o) ==
  IF CacheSize(c, o) > MaxCacheEntries
  THEN EraseOneStoredAt(c, o, MinStoredAt(c, o))
  ELSE {[cache |-> c, others |-> o, evicted_at |-> -1]}

\* update_cache: store (value, now), then the cleanup. The maps it can leave.
update_cache(c, o, key, value) ==
  EvictOldest([c EXCEPT ![key] = [present |-> TRUE, value |-> value,
                                  stored_at |-> current_time]], o)

\* update_cache for a key outside Keys that the map does not hold.
update_cache_other(c, o) == EvictOldest(c, [o EXCEPT ![now] = @ + 1])

\* cache_.erase(key) in process_write, with caching taken as disabled.
InvalidatedCacheKept(key) == cache

\* cache_ after the first step of process_write: the key's entry is erased if
\* caching is enabled.
InvalidatedCache(key) ==
  IF caching_enabled THEN [cache EXCEPT ![key] = NoEntry] ELSE cache

\* ---- routing
\* ReplicationMode and WorkloadPattern.
Modes == {"CHAIN_ONLY", "QUORUM_ONLY", "HYBRID_AUTO"}
Patterns == {"READ_HEAVY", "WRITE_HEAVY", "BALANCED", "BURSTY", "UNKNOWN"}

\* AdaptiveMetrics: the ratio in tenths, the probability in hundredths.
Metrics(ratio, latency, throughput, probability, nodes, pattern) ==
  [read_write_ratio |-> ratio, average_latency |-> latency, throughput |-> throughput,
   network_partition_probability |-> probability, active_nodes |-> nodes,
   pattern |-> pattern]

\* AdaptiveMetrics(): ratio 1.0, everything else 0, pattern UNKNOWN.
DefaultMetrics == Metrics(10, 0, 0, 0, 0, "UNKNOWN")

\* decide_protocol_for_read with the READ_HEAVY test left out.
decide_protocol_for_read_no_pattern ==
  IF intelligent_routing_enabled /\ current_metrics.network_partition_probability > 20
  THEN "CHAIN_ONLY"
  ELSE read_preference

decide_protocol_for_read ==
  IF intelligent_routing_enabled /\ current_metrics.network_partition_probability > 20
  THEN "CHAIN_ONLY"
  ELSE IF intelligent_routing_enabled /\ current_metrics.pattern = "READ_HEAVY"
  THEN "CHAIN_ONLY"
  ELSE read_preference

\* decide_protocol_for_write with the BURSTY test left out.
decide_protocol_for_write_no_bursty ==
  IF intelligent_routing_enabled /\ current_metrics.pattern = "WRITE_HEAVY"
  THEN "QUORUM_ONLY"
  ELSE write_preference

decide_protocol_for_write ==
  IF intelligent_routing_enabled /\ current_metrics.pattern = "WRITE_HEAVY"
  THEN "QUORUM_ONLY"
  ELSE IF intelligent_routing_enabled /\ current_metrics.pattern = "BURSTY"
  THEN "CHAIN_ONLY"
  ELSE write_preference

\* The mode process_read computes after a cache miss.
ReadMode ==
  IF adaptive_switching_enabled THEN decide_protocol_for_read ELSE read_preference

\* The mode process_write computes.
WriteMode ==
  IF adaptive_switching_enabled THEN decide_protocol_for_write ELSE write_preference

\* The coordinator process_read hands the request to under mode.
ReadProtocol(mode) ==
  IF mode = "CHAIN_ONLY" \/ (mode = "HYBRID_AUTO" /\ current_metrics.read_write_ratio > 20)
  THEN "chain"
  ELSE IF mode = "QUORUM_ONLY" \/ mode = "HYBRID_AUTO" THEN "quorum" ELSE "none"

\* The coordinator process_write hands the request to under mode.
WriteProtocol(mode) ==
  IF mode = "CHAIN_ONLY" \/
     (mode = "HYBRID_AUTO" /\ current_metrics.network_partition_probability > 30)
  THEN "chain"
  ELSE IF mode = "QUORUM_ONLY" \/ mode = "HYBRID_AUTO" THEN "quorum" ELSE "none"

\* What a dispatcher read did: whether the cache answered, the entry it
\* looked up (and its age), the entry left behind by try_cache_read, and for
\* a read the cache did not answer the mode and the coordinator chosen.
HybridReturned(key, looked_up, entry, from_cache, success, value, after_try) ==
  [op |-> "read", key |-> key, looked_up |-> looked_up,
   found |-> looked_up /\ entry.present,
   age |-> IF looked_up /\ entry.present THEN current_time - entry.stored_at ELSE 0,
   from_cache |-> from_cache, success |-> success, value |-> value,
   left_present |-> after_try.present,
   mode |-> IF from_cache THEN "none" ELSE ReadMode,
   protocol |-> IF from_cache THEN "none" ELSE ReadProtocol(ReadMode)]

NoHybridCall ==
  [op |-> "none", key |-> EmptyValue, looked_up |-> FALSE, found |-> FALSE, age |-> 0,
   from_cache |-> FALSE, success |-> FALSE, value |-> EmptyValue, left_present |-> FALSE,
   mode |-> "none", protocol |-> "none"]

\* What a dispatcher write did: the mode and the coordinator chosen.
HybridWrote ==
  [op |-> "write", mode |-> WriteMode, protocol |-> WriteProtocol(WriteMode)]

NoHybridWrite == [op |-> "none", mode |-> "none", protocol |-> "none"]

\* No request is being served.
NoRequest == [key |-> EmptyValue, value |-> EmptyValue, success |-> FALSE]

\* What the quorum coordinator's process_read returns on a quorum of one member.
QuorumReadResult(n, key) ==
  [success |-> data_store[n][key] # Absent,
   value |-> IF data_store[n][key] # Absent THEN data_store[n][key] ELSE EmptyValue]

\* Message::is_read_operation and is_write_operation, by the request's type.
is_read_operation(type) == type = "READ_REQUEST"
is_write_operation(type) == type = "WRITE_REQUEST"

\* The ratio update_performance_metrics leaves, in tenths: read_count /
\* write_count once a write was counted, and the ratio it found before that.
RatioAfter(reads, writes, ratio) ==
  IF writes > 0 THEN (10 * reads) \div writes ELSE ratio

\* update_performance_metrics for a request of the given type that took less
\* than a microsecond: the latency average decays, the static counters count
\* the request, and the ratio is recomputed.
update_performance_metrics(type) ==
  LET reads == IF is_read_operation(type) THEN read_count + 1 ELSE read_count
      writes == IF ~is_read_operation(type) /\ is_write_operation(type)
                THEN write_count + 1 ELSE write_count
  IN  /\ read_count' = reads
      /\ write_count' = writes
      /\ current_metrics' =
           [current_metrics EXCEPT
              !.average_latency = (@ * 9) \div 10,
              !.read_write_ratio = RatioAfter(reads, writes, @)]

\* HybridProtocol::process_read: the cache, then the chain coordinator's
\* process_read or (on a quorum of one member) the quorum coordinator's, as the
\* mode says, then update_cache and update_performance_metrics. A call that
\* reaches update_performance_metrics while metrics_mutex_ is held for good
\* does not return.
hybrid_process_read(key) ==
  LET req == Msg("READ_REQUEST", DefaultSenderId, HNode, 0, key, EmptyValue)
      hit == caching_enabled /\ try_cache_read(key)
      c1 == IF caching_enabled THEN CacheAfterTry(key) ELSE cache
      via_chain == ReadProtocol(ReadMode) = "chain"
      cres == ChainReadResult(HNode, req)
      res == IF via_chain THEN [success |-> cres.success, value |-> cres.value]
             ELSE QuorumReadResult(HNode, key)
  IN  /\ h_reads' = h_reads + 1
      /\ UNCHANGED <<adaptive_switching_enabled, intelligent_routing_enabled,
                     read_preference, write_preference, current_mode, h_wlast>>
      /\ UNCHANGED <<switching_threshold, h_writes, metrics_stuck, h_partition>>
      /\ UNCHANGED <<mvars, lifevars, lockvars, wirevars, ccvars>>
      /\ IF hit
         THEN /\ h_last' = HybridReturned(key, TRUE, cache[key], TRUE, TRUE,
                                          cache[key].value, c1[key])
              /\ cache_hits' = cache_hits + 1
              /\ UNCHANGED <<cache, caching_enabled, now, written_since, cache_others,
                             cache_misses, c_last, c_prev>>
              /\ UNCHANGED <<qvars, nodevars, chvars, current_metrics,
                             chain_operations, quorum_operations, read_count,
                             write_count, h_snapshot>>
         ELSE /\ ~metrics_stuck
              /\ IF via_chain
                 THEN /\ ch_last' = [ch_last EXCEPT ![HNode] = cres]
                      /\ net' = net \cup Transmit(HNode, cres.sent)
                      /\ chain_operations' = chain_operations + 1
                      /\ UNCHANGED <<qvars, data_store, quorum_operations>>
                 ELSE /\ ReadSingle(HNode, key)
                      /\ quorum_operations' = quorum_operations + 1
                      /\ UNCHANGED <<ch_last, chain_operations>>
              /\ cache_misses' = IF caching_enabled THEN cache_misses + 1 ELSE cache_misses
              /\ \E r \in (IF res.success /\ caching_enabled
                           THEN update_cache(c1, cache_others, key, res.value)
                           ELSE {[cache |-> c1, others |-> cache_others]}) :
                   /\ cache' = r.cache
                   /\ cache_others' = r.others
              /\ written_since' = IF (res.success /\ caching_enabled) \/ ~c1[key].present
                                  THEN [written_since EXCEPT ![key] = FALSE]
                                  ELSE written_since
              /\ h_last' = HybridReturned(key, caching_enabled, cache[key], FALSE,
                                          res.success, res.value, c1[key])
              /\ update_performance_metrics(req.type)
              /\ h_snapshot' = (h_snapshot /\ current_metrics' = current_metrics)
              /\ UNCHANGED <<caching_enabled, now, message_queue,
                             cache_hits, c_last, c_prev>>
              /\ UNCHANGED <<chain_order, my_position, batching_enabled, batch_size,
                             write_batch, pending_writes, ch_seq, ch_call, applied>>

\* HybridProtocol::process_write: erase the cache entry if caching is enabled,
\* then the chain coordinator's process_write or (on a quorum of one member)
\* the quorum coordinator's, as the mode says, then update_performance_metrics.
hybrid_process_write(key, value) ==
  /\ ~metrics_stuck
  /\ cache' = InvalidatedCache(key)
  /\ IF WriteProtocol(WriteMode) = "chain"
     THEN /\ ChainWrite(HNode, key, value)
          /\ chain_operations' = chain_operations + 1
          /\ UNCHANGED <<qvars, quorum_operations>>
     ELSE /\ WriteSingle(HNode, key, value)
          /\ quorum_operations' = quorum_operations + 1
          /\ UNCHANGED <<chvars, chain_operations>>
  /\ h_wlast' = HybridWrote
  /\ h_writes' = h_writes + 1
  /\ written_since' = [written_since EXCEPT ![key] = cache'[key].present]
  /\ update_performance_metrics("WRITE_REQUEST")
  /\ UNCHANGED <<adaptive_switching_enabled, intelligent_routing_enabled,
                 read_preference, write_preference, current_mode>>
  /\ h_snapshot' = (h_snapshot /\ current_metrics' = current_metrics)
  /\ UNCHANGED <<switching_threshold, h_reads, metrics_stuck, h_partition>>
  /\ UNCHANGED <<caching_enabled, now, h_last, message_queue, cache_others,
                 cache_hits, cache_misses, c_last, c_prev, mvars,
                 lifevars, lockvars, wirevars, ccvars>>

\* ---- process_read and process_write step by step
\* Two threads call one dispatcher, one process_write and one process_read at
\* a time. Each call is cut where it takes or gives up a mutex: cache_mutex_
\* in try_cache_read, update_cache and the erase of process_write, the
\* coordinator's and the node's mutexes around the store, metrics_mutex_ in
\* update_performance_metrics.
CFrameDispatch ==
  UNCHANGED <<adaptive_switching_enabled, intelligent_routing_enabled,
              read_preference, write_preference, current_mode, h_wlast,
              switching_threshold, metrics_stuck, h_partition,
              caching_enabled, now, h_last, written_since, c_last, c_prev,
              message_queue, mvars, lifevars, lockvars, wirevars>>

\* process_write up to the end of the block that erases the key's cache entry.
write_invalidate(key, value) ==
  /\ cw_pc = "idle"
  /\ cache' = InvalidatedCache(key)
  /\ cw_req' = [key |-> key, value |-> value, success |-> FALSE]
  /\ cw_pc' = "invalidated"
  /\ UNCHANGED <<cache_others, cache_hits, cache_misses, cr_pc, cr_req>>
  /\ UNCHANGED <<qvars, data_store, net, chvars, current_metrics, chain_operations,
                 quorum_operations, read_count, write_count, h_reads, h_writes,
                 h_snapshot>>
  /\ CFrameDispatch

\* The rest of process_write: the coordinator's process_write, the operation
\* counter, update_performance_metrics, return.
write_store ==
  /\ cw_pc = "invalidated"
  /\ ~metrics_stuck
  /\ IF WriteProtocol(WriteMode) = "chain"
     THEN /\ ChainWrite(HNode, cw_req.key, cw_req.value)
          /\ chain_operations' = chain_operations + 1
          /\ UNCHANGED <<qvars, quorum_operations>>
     ELSE /\ WriteSingle(HNode, cw_req.key, cw_req.value)
          /\ quorum_operations' = quorum_operations + 1
          /\ UNCHANGED <<chvars, chain_operations>>
  /\ update_performance_metrics("WRITE_REQUEST")
  /\ h_snapshot' = (h_snapshot /\ current_metrics' = current_metrics)
  /\ h_writes' = h_writes + 1
  /\ cw_pc' = "idle"
  /\ cw_req' = NoRequest
  /\ UNCHANGED <<cache, cache_others, cache_hits, cache_misses, cr_pc, cr_req,
                 h_reads>>
  /\ CFrameDispatch

\* process_read up to the return of try_cache_read: a hit returns the cached
\* value, a miss (or a disabled cache) goes on to the coordinator.
read_cache(key) ==
  /\ cr_pc = "idle"
  /\ IF caching_enabled /\ try_cache_read(key)
     THEN /\ cache_hits' = cache_hits + 1
          /\ h_reads' = h_reads + 1
          /\ UNCHANGED <<cache, cache_misses, cr_pc, cr_req>>
     ELSE /\ cache' = IF caching_enabled THEN CacheAfterTry(key) ELSE cache
          /\ cache_misses' = IF caching_enabled THEN cache_misses + 1 ELSE cache_misses
          /\ cr_req' = [key |-> key, value |-> EmptyValue, success |-> FALSE]
          /\ cr_pc' = "missed"
          /\ UNCHANGED <<cache_hits, h_reads>>
  /\ UNCHANGED <<cache_others, cw_pc, cw_req>>
  /\ UNCHANGED <<qvars, data_store, net, chvars, current_metrics, chain_operations,
                 quorum_operations, read_count, write_count, h_writes, h_snapshot>>
  /\ CFrameDispatch

\* process_read after a miss: the coordinator's process_read fills the
\* response, the operation counter counts.
read_fetch ==
  LET req == Msg("READ_REQUEST", DefaultSenderId, HNode, 0, cr_req.key, EmptyValue)
      cres == ChainReadResult(HNode, req)
      res == IF ReadProtocol(ReadMode) = "chain"
             THEN [success |-> cres.success, value |-> cres.value]
             ELSE QuorumReadResult(HNode, cr_req.key)
  IN  /\ cr_pc = "missed"
      /\ IF ReadProtocol(ReadMode) = "chain"
         THEN /\ ch_last' = [ch_last EXCEPT ![HNode] = cres]
              /\ net' = net \cup Transmit(HNode, cres.sent)
              /\ chain_operations' = chain_operations + 1
              /\ UNCHANGED <<qvars, data_store, quorum_operations>>
         ELSE /\ ReadSingle(HNode, cr_req.key)
              /\ quorum_operations' = quorum_operations + 1
              /\ UNCHANGED <<ch_last, chain_operations>>
      /\ cr_req' = [key |-> cr_req.key, value |-> res.value, success |-> res.success]
      /\ cr_pc' = "fetched"
      /\ UNCHANGED <<cache, cache_others, cache_hits, cache_misses, cw_pc, cw_req>>
      /\ UNCHANGED <<chain_order, my_position, batching_enabled, batch_size,
                     write_batch, pending_writes, ch_seq, ch_call, applied>>
      /\ UNCHANGED <<current_metrics, read_count, write_count, h_reads, h_writes,
                     h_snapshot>>
      /\ CFrameDispatch

\* The rest of process_read: update_cache with the response's value if the
\* read succeeded and caching is enabled, update_performance_metrics, return.
read_fill ==
  /\ cr_pc = "fetched"
  /\ ~metrics_stuck
  /\ \E r \in (IF cr_req.success /\ caching_enabled
               THEN update_cache(cache, cache_others, cr_req.key, cr_req.value)
               ELSE {[cache |-> cache, others |-> cache_others]}) :
       /\ cache' = r.cache
       /\ cache_others' = r.others
  /\ update_performance_metrics("READ_REQUEST")
  /\ h_snapshot' = (h_snapshot /\ current_metrics' = current_metrics)
  /\ h_reads' = h_reads + 1
  /\ cr_pc' = "idle"
  /\ cr_req' = NoRequest
  /\ UNCHANGED <<cache_hits, cache_misses, cw_pc, cw_req>>
  /\ UNCHANGED <<qvars, data_store, net, chvars, chain_operations, quorum_operations,
                 h_writes>>
  /\ CFrameDispatch

\* ---- the routing switches and preferences
enable_adaptive_switching(enable) ==
  /\ adaptive_switching_enabled # enable
  /\ adaptive_switching_enabled' = enable
  /\ UNCHANGED <<intelligent_routing_enabled, read_preference, write_preference,
                 current_metrics, current_mode, h_wlast>>
  /\ UNCHANGED <<qvars, nodevars, chvars, cvars, mvars, lifevars, lockvars, wirevars,
                 svars, ccvars>>

enable_intelligent_routing(enable) ==
  /\ intelligent_routing_enabled # enable
  /\ intelligent_routing_enabled' = enable
  /\ UNCHANGED <<adaptive_switching_enabled, read_preference, write_preference,
                 current_metrics, current_mode, h_wlast>>
  /\ UNCHANGED <<qvars, nodevars, chvars, cvars, mvars, lifevars, lockvars, wirevars,
                 svars, ccvars>>

set_read_preference(mode) ==
  /\ read_preference # mode
  /\ read_preference' = mode
  /\ UNCHANGED <<adaptive_switching_enabled, intelligent_routing_enabled,
                 write_preference, current_metrics, current_mode, h_wlast>>
  /\ UNCHANGED <<qvars, nodevars, chvars, cvars, mvars, lifevars, lockvars, wirevars,
                 svars, ccvars>>

set_write_preference(mode) ==
  /\ write_preference # mode
  /\ write_preference' = mode
  /\ UNCHANGED <<adaptive_switching_enabled, intelligent_routing_enabled,
                 read_preference, current_metrics, current_mode, h_wlast>>
  /\ UNCHANGED <<qvars, nodevars, chvars, cvars, mvars, lifevars, lockvars, wirevars,
                 svars, ccvars>>

\* ---- workload metrics
\* switching_threshold_(0.15), in hundredths.
SwitchingThreshold == 15

analyze_workload_pattern(m) ==
  IF m.read_write_ratio > 30 THEN "READ_HEAVY"
  ELSE IF m.read_write_ratio < 5 THEN "WRITE_HEAVY"
  ELSE IF m.throughput > m.average_latency * 10 THEN "BURSTY"
  ELSE "BALANCED"

\* current_metrics_.active_nodes is a size_t: the values 2^64 - k that a
\* decrement below zero produces are written -k, so that an unsigned comparison
\* "active_nodes < c" reads 0 <= active_nodes < c.
FewerNodesThan(m, c) == m.active_nodes >= 0 /\ m.active_nodes < c

\* std::max(size_t(1), active_nodes - 1): only a difference of zero is below 1.
ActiveAfterFailure(active) == IF active - 1 = 0 THEN 1 ELSE active - 1

\* get_hybrid_efficiency() > 0.8. The efficiency is 0.0 before the first
\* request reaches a coordinator, and otherwise 0.4 * hits / (hits + misses) +
\* 0.6 * min(chain, quorum) / (chain + quorum), which is NaN (and not above
\* 0.8) when the cache was never looked into.
EfficiencyAbove80 ==
  LET total_ops == chain_operations + quorum_operations
      lookups == cache_hits + cache_misses
  IN  /\ total_ops > 0
      /\ lookups > 0
      /\ 4 * cache_hits * total_ops + 6 * Min(chain_operations, quorum_operations) * lookups
           > 8 * lookups * total_ops

\* select_optimal_mode's chain score with the ratio factor left out.
chain_score_no_ratio(m) ==
  (IF m.network_partition_probability > 20 THEN 25 ELSE 0)
  + (IF m.average_latency > 100 /\ EfficiencyAbove80 THEN 20 ELSE 0)
  + (IF FewerNodesThan(m, 5) THEN 15 ELSE 0)
  + (IF m.pattern = "READ_HEAVY" THEN 20 ELSE IF m.pattern = "BURSTY" THEN 10 ELSE 0)

\* select_optimal_mode's chain score, in hundredths.
chain_score(m) ==
  (IF m.read_write_ratio > 30 THEN 30 ELSE 0)
  + (IF m.network_partition_probability > 20 THEN 25 ELSE 0)
  + (IF m.average_latency > 100 /\ EfficiencyAbove80 THEN 20 ELSE 0)
  + (IF FewerNodesThan(m, 5) THEN 15 ELSE 0)
  + (IF m.pattern = "READ_HEAVY" THEN 20 ELSE IF m.pattern = "BURSTY" THEN 10 ELSE 0)

\* select_optimal_mode's quorum score, in hundredths.
quorum_score(m) ==
  (IF m.read_write_ratio < 5 THEN 30 ELSE 0)
  + (IF m.network_partition_probability > 20 THEN 0 ELSE 15)
  + (IF m.average_latency > 100 /\ ~EfficiencyAbove80 THEN 20 ELSE 0)
  + (IF FewerNodesThan(m, 5) THEN 0 ELSE 10)
  + (IF m.pattern = "WRITE_HEAVY" THEN 20 ELSE 0)

select_optimal_mode(m) ==
  IF chain_score(m) > quorum_score(m) + switching_threshold THEN "CHAIN_ONLY"
  ELSE IF quorum_score(m) > chain_score(m) + switching_threshold THEN "QUORUM_ONLY"
  ELSE "HYBRID_AUTO"

\* Metrics update_workload_metrics is called with: latencies of at most 100 ms.
MetricsChoices ==
  {Metrics(ratio, 0, throughput, probability, nodes, "UNKNOWN") :
     ratio \in {4, 10, 31}, throughput \in {0, 1}, probability \in {20, 21},
     nodes \in {3}}

\* The snapshot with the pattern analyze_workload_pattern finds for it.
Classified(metrics) == [metrics EXCEPT !.pattern = analyze_workload_pattern(metrics)]

\* update_workload_metrics: under metrics_mutex_, store the metrics, classify
\* the workload, and with adaptive switching on move current_mode_ to what
\* select_optimal_mode returns. For a latency above 100 ms select_optimal_mode
\* calls get_hybrid_efficiency, which locks metrics_mutex_ again on the
\* thread that holds it: the behaviour of that lock() is undefined, so the
\* thread waits for good with the mutex held, or goes on.
update_workload_metrics(metrics) ==
  LET m1 == Classified(metrics)
      relocks == adaptive_switching_enabled /\ m1.average_latency > 100
  IN  /\ ~metrics_stuck
      /\ current_metrics' = m1
      /\ \/ /\ relocks
            /\ metrics_stuck' = TRUE
            /\ h_snapshot' = FALSE
            /\ UNCHANGED <<current_mode, h_partition>>
         \/ /\ current_mode' = IF adaptive_switching_enabled
                               THEN select_optimal_mode(m1)
                               ELSE current_mode
            /\ h_partition' = (h_partition /\ current_mode' = "CHAIN_ONLY")
            /\ h_snapshot' = TRUE
            /\ UNCHANGED metrics_stuck
      /\ UNCHANGED <<adaptive_switching_enabled, intelligent_routing_enabled,
                     read_preference, write_preference, h_wlast>>
      /\ UNCHANGED <<switching_threshold, chain_operations, quorum_operations,
                     read_count, write_count, h_reads, h_writes>>
      /\ UNCHANGED <<qvars, nodevars, chvars, cvars, mvars, lifevars, lockvars,
                     wirevars, ccvars>>

\* Thresholds set_switching_threshold is called with, in hundredths.
ThresholdChoices == {0, 15, 20}

set_switching_threshold(threshold) ==
  /\ switching_threshold # threshold
  /\ switching_threshold' = threshold
  /\ UNCHANGED <<chain_operations, quorum_operations, read_count, write_count,
                 h_reads, h_writes, metrics_stuck, h_partition, h_snapshot>>
  /\ UNCHANGED <<qvars, nodevars, chvars, cvars, mvars, lifevars, lockvars, wirevars,
                 rvars, ccvars>>

\* handle_network_partition: with adaptive switching on, current_mode_ becomes
\* CHAIN_ONLY.
handle_network_partition ==
  /\ current_mode' = IF adaptive_switching_enabled THEN "CHAIN_ONLY" ELSE current_mode
  /\ h_partition' = (adaptive_switching_enabled \/ h_partition)
  /\ UNCHANGED <<adaptive_switching_enabled, intelligent_routing_enabled,
                 read_preference, write_preference, current_metrics, h_wlast>>
  /\ UNCHANGED <<switching_threshold, chain_operations, quorum_operations,
                 read_count, write_count, h_reads, h_writes, metrics_stuck, h_snapshot>>
  /\ UNCHANGED <<qvars, nodevars, chvars, cvars, mvars, lifevars, lockvars, wirevars,
                 ccvars>>

HFrameMembership ==
  /\ UNCHANGED <<adaptive_switching_enabled, intelligent_routing_enabled,
                 read_preference, write_preference, current_mode, h_wlast>>
  /\ UNCHANGED <<nodevars, cvars, mvars, lifevars, lockvars, wirevars, svars, ccvars>>

\* HybridProtocol::handle_node_failure: the chain's handler, the quorum's
\* handler, then the active-node count.
hybrid_handle_node_failure(failed_node) ==
  /\ ChainFailure(HNode, failed_node)
  /\ QuorumFailure(HNode, failed_node)
  /\ current_metrics' = [current_metrics EXCEPT
                           !.active_nodes = ActiveAfterFailure(@)]
  /\ HFrameMembership

\* HybridProtocol::handle_node_recovery: the chain's handler, the quorum's
\* handler, then active_nodes++.
hybrid_handle_node_recovery(recovered_node) ==
  /\ ChainRecovery(HNode, recovered_node)
  /\ QuorumRecovery(HNode, recovered_node)
  /\ current_metrics' = [current_metrics EXCEPT !.active_nodes = @ + 1]
  /\ HFrameMembership

enable_caching(enable) ==
  /\ caching_enabled # enable
  /\ caching_enabled' = enable
  /\ UNCHANGED <<cache, now, h_last, written_since, cache_others, cache_hits,
                 cache_misses, c_last, c_prev, qvars, nodevars, chvars, mvars, xvars>>

\* Time passes: the next clock reading is one tick later.
Tick ==
  /\ now < MaxTicks
  /\ now' = now + 1
  /\ UNCHANGED <<cache, caching_enabled, h_last, written_since, cache_others,
                 cache_hits, cache_misses, c_last, c_prev, qvars, nodevars, chvars, mvars, xvars>>

\* ---- the cache operations, called one at a time
\* What a direct call of a cache operation did: the result of try_cache_read,
\* the size of the map before and after update_cache, whether the key was new,
\* the stored_at of the entry the cleanup erased (-1 for none) and the
\* smallest stored_at the map held when the cleanup ran.
CacheCall(op, key, value, hit, size_before, was_new, size_after, evicted_at, min_at) ==
  [op |-> op, key |-> key, value |-> value, hit |-> hit, at |-> current_time,
   size_before |-> size_before, was_new |-> was_new, size_after |-> size_after,
   evicted_at |-> evicted_at, min_at |-> min_at, n |-> c_last.n + 1]

NoCacheCall ==
  [op |-> "none", key |-> EmptyValue, value |-> EmptyValue, hit |-> FALSE, at |-> 0,
   size_before |-> 0, was_new |-> FALSE, size_after |-> 0, evicted_at |-> -1,
   min_at |-> 0, n |-> 0]

\* The key of a request for a key outside Keys.
OtherKey == "<other>"

CacheOpFrame ==
  UNCHANGED <<caching_enabled, now, h_last, written_since, cache_hits, cache_misses,
              qvars, nodevars, chvars, mvars, xvars>>

\* update_cache(key, value)
cache_update(key, value) ==
  /\ c_last.n < MaxCacheOps
  /\ \E r \in update_cache(cache, cache_others, key, value) :
       /\ cache' = r.cache
       /\ cache_others' = r.others
       /\ c_last' = CacheCall("update", key, value, FALSE,
                              CacheSize(cache, cache_others), ~cache[key].present,
                              CacheSize(r.cache, r.others), r.evicted_at,
                              MinStoredAt([cache EXCEPT ![key].present = TRUE,
                                                        ![key].stored_at = current_time],
                                          cache_others))
  /\ c_prev' = c_last
  /\ CacheOpFrame

\* update_cache(key, value) for a key outside Keys that the map does not hold.
cache_update_other ==
  /\ c_last.n < MaxCacheOps
  /\ \E r \in update_cache_other(cache, cache_others) :
       /\ cache' = r.cache
       /\ cache_others' = r.others
       /\ c_last' = CacheCall("update", OtherKey, EmptyValue, FALSE,
                              CacheSize(cache, cache_others), TRUE,
                              CacheSize(r.cache, r.others), r.evicted_at,
                              MinStoredAt(cache, [cache_others EXCEPT ![now] = @ + 1]))
  /\ c_prev' = c_last
  /\ CacheOpFrame

\* try_cache_read(key, value)
cache_try_read(key) ==
  /\ c_last.n < MaxCacheOps
  /\ cache' = CacheAfterTry(key)
  /\ c_last' = CacheCall("try_read", key,
                         IF try_cache_read(key) THEN cache[key].value ELSE EmptyValue,
                         try_cache_read(key),
                         CacheSize(cache, cache_others), FALSE,
                         CacheSize(CacheAfterTry(key), cache_others), -1, 0)
  /\ c_prev' = c_last
  /\ UNCHANGED cache_others
  /\ CacheOpFrame

\* cache_.erase(key), the invalidation in process_write
cache_invalidate(key) ==
  /\ c_last.n < MaxCacheOps
  /\ cache' = [cache EXCEPT ![key] = NoEntry]
  /\ c_last' = CacheCall("invalidate", key, EmptyValue, FALSE,
                         CacheSize(cache, cache_others), FALSE,
                         CacheSize([cache EXCEPT ![key] = NoEntry], cache_others), -1, 0)
  /\ c_prev' = c_last
  /\ UNCHANGED cache_others
  /\ CacheOpFrame

\* ------------------------------------------------------ PerformanceMonitor
\* Operation ids the monitor is called with.
OpIds == {1, 2, 3}

MFrame == UNCHANGED <<qvars, nodevars, chvars, cvars, xvars>>

start_operation(operation_id) ==
  /\ total_operations < MaxMetricOps
  /\ active_operations' = active_operations \cup {operation_id}
  /\ total_operations' = total_operations + 1
  /\ UNCHANGED <<successful_operations, failed_operations>>
  /\ MFrame

end_operation(operation_id, success) ==
  /\ IF operation_id \in active_operations
     THEN /\ successful_operations' =
               IF success THEN successful_operations + 1 ELSE successful_operations
          /\ failed_operations' =
               IF success THEN failed_operations ELSE failed_operations + 1
          /\ active_operations' = active_operations \ {operation_id}
     ELSE UNCHANGED <<successful_operations, failed_operations, active_operations>>
  /\ UNCHANGED total_operations
  /\ MFrame

reset_metrics ==
  /\ active_operations' = {}
  /\ total_operations' = 0
  /\ successful_operations' = 0
  /\ failed_operations' = 0
  /\ MFrame

\* ------------------------------------------------------------- the mutexes
\* Node::data_mutex_ (store), NetworkManager::nodes_mutex_ (peers),
\* ChainReplication::chain_mutex_, QuorumReplication::consensus_mutex_ (quorum),
\* HybridProtocol::cache_mutex_ and HybridProtocol::metrics_mutex_.
Mutexes == {"store", "peers", "chain", "quorum", "cache", "metrics"}

\* The threads that call into one node's coordinators.
Threads == {"t1", "t2"}

Lock(mutex) == <<"lock", mutex>>
Unlock(mutex) == <<"unlock", mutex>>

\* Node::read and Node::write: data_mutex_ for the whole call.
NodeStoreLocks == <<Lock("store"), Unlock("store")>>

\* ChainReplication::process_read at the tail: chain_mutex_ for the whole
\* call, Node::read inside it.
ChainReadTailLocks == <<Lock("chain")>> \o NodeStoreLocks \o <<Unlock("chain")>>

\* ChainReplication::process_read elsewhere: chain_mutex_, the request forwarded.
ChainReadForwardLocks == <<Lock("chain"), Unlock("chain")>>

\* ChainReplication::process_write at the head, no batching: chain_mutex_ for
\* the whole call, Node::write inside it.
ChainWriteDirectLocks == <<Lock("chain")>> \o NodeStoreLocks \o <<Unlock("chain")>>

\* initiate_consensus that commits: the proposal stored under consensus_mutex_,
\* then the polling loop's iteration that finds the majority and calls
\* Node::write with consensus_mutex_ held.
ConsensusCommitLocks ==
  <<Lock("quorum"), Unlock("quorum"), Lock("quorum")>> \o NodeStoreLocks \o
  <<Unlock("quorum")>>

\* initiate_consensus that times out: the proposal stored, one iteration of
\* the polling loop, the proposal erased.
ConsensusTimeoutLocks ==
  <<Lock("quorum"), Unlock("quorum"), Lock("quorum"), Unlock("quorum"),
    Lock("quorum"), Unlock("quorum")>>

\* try_cache_read, update_cache and the erase in process_write: cache_mutex_.
CacheLocks == <<Lock("cache"), Unlock("cache")>>

\* update_performance_metrics: metrics_mutex_.
MetricsLocks == <<Lock("metrics"), Unlock("metrics")>>

\* HybridProtocol::process_read that misses the cache and reads at the tail.
HybridReadMissLocks == CacheLocks \o ChainReadTailLocks \o CacheLocks \o MetricsLocks

\* HybridProtocol::process_write on a quorum of one member.
HybridWriteLocks == CacheLocks \o NodeStoreLocks \o MetricsLocks

LockOps ==
  {"chain_read_tail", "chain_read_forward", "chain_write_direct", "consensus_commit",
   "consensus_timeout", "quorum_single", "hybrid_read_hit", "hybrid_read_miss",
   "hybrid_write"}

\* The lock and unlock calls of an operation, in program order.
LockScript(op) ==
  CASE op = "chain_read_tail" -> ChainReadTailLocks
    [] op = "chain_read_forward" -> ChainReadForwardLocks
    [] op = "chain_write_direct" -> ChainWriteDirectLocks
    [] op = "consensus_commit" -> ConsensusCommitLocks
    [] op = "consensus_timeout" -> ConsensusTimeoutLocks
    [] op = "quorum_single" -> NodeStoreLocks
    [] op = "hybrid_read_hit" -> CacheLocks
    [] op = "hybrid_read_miss" -> HybridReadMissLocks
    [] op = "hybrid_write" -> HybridWriteLocks

IdleThread == [op |-> "idle", at |-> 0]

LockFrame ==
  UNCHANGED <<qvars, nodevars, chvars, cvars, mvars, lifevars, wirevars, rvars,
              svars, ccvars>>

\* A thread enters an operation.
call_operation(t, op) ==
  /\ lk_pc[t] = IdleThread
  /\ lk_pc' = [lk_pc EXCEPT ![t] = [op |-> op, at |-> 1]]
  /\ UNCHANGED held
  /\ LockFrame

\* The thread's position after the call at step at of its operation.
AfterStep(t) ==
  IF lk_pc[t].at = Len(LockScript(lk_pc[t].op))
  THEN IdleThread
  ELSE [lk_pc[t] EXCEPT !.at = @ + 1]

\* std::lock_guard's constructor: the thread waits until no thread holds the mutex.
lock(t) ==
  /\ lk_pc[t] # IdleThread
  /\ LET step == LockScript(lk_pc[t].op)[lk_pc[t].at]
     IN  /\ step[1] = "lock"
         /\ \A u \in Threads : step[2] \notin held[u]
         /\ held' = [held EXCEPT ![t] = @ \cup {step[2]}]
  /\ lk_pc' = [lk_pc EXCEPT ![t] = AfterStep(t)]
  /\ LockFrame

\* std::lock_guard's destructor.
unlock(t) ==
  /\ lk_pc[t] # IdleThread
  /\ LET step == LockScript(lk_pc[t].op)[lk_pc[t].at]
     IN  /\ step[1] = "unlock"
         /\ held' = [held EXCEPT ![t] = @ \ {step[2]}]
  /\ lk_pc' = [lk_pc EXCEPT ![t] = AfterStep(t)]
  /\ LockFrame

\* ------------------------------------------------- Message, on the wire
\* A std::string is the sequence of its characters.
PipeChar == "|"
CommaChar == ","
Digits == <<"0", "1", "2", "3", "4", "5", "6", "7", "8", "9">>

\* operator<< of an unsigned number: its decimal digits.
RECURSIVE to_string(_)
to_string(number) ==
  IF number < 10 THEN <<Digits[number + 1]>>
  ELSE to_string(number \div 10) \o <<Digits[(number % 10) + 1]>>

IsDigit(c) == \E d \in 1..10 : Digits[d] = c
DigitValue(c) == (CHOOSE d \in 1..10 : Digits[d] = c) - 1

\* The number the leading digits of token stand for, after the digits read so far.
RECURSIVE LeadingDigits(_, _)
LeadingDigits(token, so_far) ==
  IF token = <<>> \/ ~IsDigit(Head(token)) THEN so_far
  ELSE LeadingDigits(Tail(token), so_far * 10 + DigitValue(Head(token)))

\* std::stoi / stoul / stoull throw std::invalid_argument on a token that
\* does not start with a digit.
Throws(token) == token = <<>> \/ ~IsDigit(Head(token))

\* std::stoul: the leading digits; what follows them is ignored.
stoul(token) == LeadingDigits(token, 0)

\* The target_nodes loop of serialize: the ids separated by commas.
RECURSIVE JoinTargets(_)
JoinTargets(targets) ==
  IF targets = <<>> THEN <<>>
  ELSE IF Len(targets) = 1 THEN to_string(targets[1])
  ELSE to_string(targets[1]) \o <<CommaChar>> \o JoinTargets(Tail(targets))

\* serialize without the separator between target_nodes and metadata.
serialize_unseparated_metadata(m) ==
  to_string(m.type) \o <<PipeChar>> \o to_string(m.sender_id) \o <<PipeChar>> \o
  to_string(m.receiver_id) \o <<PipeChar>> \o m.key \o <<PipeChar>> \o
  m.value \o <<PipeChar>> \o (IF m.success THEN <<"1">> ELSE <<"0">>) \o <<PipeChar>> \o
  to_string(m.timestamp) \o <<PipeChar>> \o to_string(m.sequence_number) \o
  <<PipeChar>> \o m.correlation_id \o <<PipeChar>> \o JoinTargets(m.target_nodes) \o
  m.metadata

\* Message::serialize
serialize(m) ==
  to_string(m.type) \o <<PipeChar>> \o to_string(m.sender_id) \o <<PipeChar>> \o
  to_string(m.receiver_id) \o <<PipeChar>> \o m.key \o <<PipeChar>> \o
  m.value \o <<PipeChar>> \o (IF m.success THEN <<"1">> ELSE <<"0">>) \o <<PipeChar>> \o
  to_string(m.timestamp) \o <<PipeChar>> \o to_string(m.sequence_number) \o
  <<PipeChar>> \o m.correlation_id \o <<PipeChar>> \o JoinTargets(m.target_nodes) \o
  <<PipeChar>> \o m.metadata

\* The positions of delim in data.
DelimAt(data, delim) == {i \in 1..Len(data) : data[i] = delim}

\* std::getline(stream, token, delim) on a stream with data left to read: it
\* fails on an exhausted stream, and otherwise takes the characters up to the
\* next delim, or to the end.
getline(data, delim) ==
  IF data = <<>> THEN [ok |-> FALSE, token |-> <<>>, rest |-> <<>>]
  ELSE IF DelimAt(data, delim) = {} THEN [ok |-> TRUE, token |-> data, rest |-> <<>>]
  ELSE LET i == CHOOSE j \in DelimAt(data, delim) : \A k \in DelimAt(data, delim) : j <= k
       IN  [ok |-> TRUE, token |-> SubSeq(data, 1, i - 1),
            rest |-> SubSeq(data, i + 1, Len(data))]

\* The target_nodes loop of deserialize: one stoul per comma-separated piece.
RECURSIVE ParseTargets(_)
ParseTargets(token) ==
  IF token = <<>> THEN <<>>
  ELSE LET g == getline(token, CommaChar)
       IN  <<stoul(g.token)>> \o ParseTargets(g.rest)

\* A piece of the target_nodes token makes stoul throw.
RECURSIVE TargetsThrow(_)
TargetsThrow(token) ==
  IF token = <<>> THEN FALSE
  ELSE LET g == getline(token, CommaChar)
       IN  Throws(g.token) \/ TargetsThrow(g.rest)

\* Message(): type READ_REQUEST (0), ids 0, success false, empty strings.
DefaultMessage ==
  [type |-> 0, sender_id |-> 0, receiver_id |-> 0, key |-> <<>>, value |-> <<>>,
   success |-> FALSE, timestamp |-> 0, sequence_number |-> 0, correlation_id |-> <<>>,
   target_nodes |-> <<>>, metadata |-> <<>>]

\* Message::deserialize: what it returns, or that a conversion threw.
deserialize(data) ==
  LET g1 == getline(data, PipeChar)
      g2 == getline(g1.rest, PipeChar)
      g3 == getline(g2.rest, PipeChar)
      g4 == getline(g3.rest, PipeChar)
      g5 == getline(g4.rest, PipeChar)
      g6 == getline(g5.rest, PipeChar)
      g7 == getline(g6.rest, PipeChar)
      g8 == getline(g7.rest, PipeChar)
      g9 == getline(g8.rest, PipeChar)
      g10 == getline(g9.rest, PipeChar)
      g11 == getline(g10.rest, PipeChar)
      threw == \/ g1.ok /\ Throws(g1.token)
               \/ g2.ok /\ Throws(g2.token)
               \/ g3.ok /\ Throws(g3.token)
               \/ g7.ok /\ Throws(g7.token)
               \/ g8.ok /\ Throws(g8.token)
               \/ g10.ok /\ TargetsThrow(g10.token)
  IN  IF threw THEN [done |-> TRUE, threw |-> TRUE, msg |-> DefaultMessage]
      ELSE [done |-> TRUE, threw |-> FALSE,
            msg |-> [type |-> IF g1.ok THEN stoul(g1.token) ELSE 0,
                     sender_id |-> IF g2.ok THEN stoul(g2.token) ELSE 0,
                     receiver_id |-> IF g3.ok THEN stoul(g3.token) ELSE 0,
                     key |-> IF g4.ok THEN g4.token ELSE <<>>,
                     value |-> IF g5.ok THEN g5.token ELSE <<>>,
                     success |-> IF g6.ok THEN g6.token = <<"1">> ELSE FALSE,
                     timestamp |-> IF g7.ok THEN stoul(g7.token) ELSE 0,
                     sequence_number |-> IF g8.ok THEN stoul(g8.token) ELSE 0,
                     correlation_id |-> IF g9.ok THEN g9.token ELSE <<>>,
                     target_nodes |-> IF g10.ok THEN ParseTargets(g10.token) ELSE <<>>,
                     metadata |-> IF g11.ok THEN g11.token ELSE <<>>]]

\* Nothing serialized yet, nothing deserialized yet.
NoData == <<"<none>">>
NotDeserialized == [done |-> FALSE, threw |-> FALSE, msg |-> DefaultMessage]

WireFrame ==
  UNCHANGED <<qvars, nodevars, chvars, cvars, mvars, lifevars, lockvars, rvars,
              svars, ccvars>>

\* The sender's side of a message: w_msg.serialize().
serialize_message ==
  /\ w_data = NoData
  /\ w_data' = serialize(w_msg)
  /\ UNCHANGED <<w_msg, w_out>>
  /\ WireFrame

\* The receiver's side: Message::deserialize of what was sent.
deserialize_message ==
  /\ w_data # NoData
  /\ ~w_out.done
  /\ w_out' = deserialize(w_data)
  /\ UNCHANGED <<w_msg, w_data>>
  /\ WireFrame

\* ------------------------------------------------------------ construction
\* QuorumReplication(node, quorum_nodes) on every node, Node's empty store.
QuorumInit(members) ==
  /\ quorum_nodes = [n \in Nodes |-> members]
  /\ quorum_size = [n \in Nodes |-> Majority(Len(members))]
  /\ adaptive_quorum_enabled = [n \in Nodes |-> TRUE]
  /\ next_proposal_number = [n \in Nodes |-> 1]
  /\ active_proposals = [n \in Nodes |-> <<>>]
  /\ successful_consensus = [n \in Nodes |-> 0]
  /\ failed_consensus = [n \in Nodes |-> 0]
  /\ fast_quorum_enabled = [n \in Nodes |-> TRUE]
  /\ read_optimization_enabled = [n \in Nodes |-> TRUE]
  /\ q_pc = [n \in Nodes |-> "idle"]
  /\ q_cur = [n \in Nodes |-> [pn |-> 0, key |-> EmptyValue, value |-> EmptyValue]]
  /\ q_last = [n \in Nodes |-> NoCall]
  /\ data_store = [n \in Nodes |-> [k \in Keys |-> Absent]]
  /\ message_queue = [n \in Nodes |-> <<>>]
  /\ net = {}
  /\ accepted_replies = {}
  /\ q_call = [n \in Nodes |-> "construct"]
  /\ q_adjust = [n \in Nodes |-> NoAdjustCall]
  /\ fast_ops = [n \in Nodes |-> 0]

\* ChainReplication(node, chain_order) on every node.
ChainInit(order) ==
  /\ chain_order = [n \in Nodes |-> order]
  /\ my_position = [n \in Nodes |-> find_my_position(order, n)]
  /\ batching_enabled = [n \in Nodes |-> TRUE]
  /\ batch_size = [n \in Nodes |-> DefaultBatchSize]
  /\ write_batch = [n \in Nodes |-> <<>>]
  /\ pending_writes = [n \in Nodes |-> {}]
  /\ ch_seq = 0
  /\ ch_last = [n \in Nodes |-> NoChainCall]
  /\ ch_call = [n \in Nodes |-> "construct"]
  /\ applied = [n \in Nodes |-> <<>>]

\* HybridProtocol with caching on, its counters at 0, and a cache that holds
\* others entries of keys outside Keys, all stored at the first clock reading.
CacheInitFilled(others) ==
  /\ cache = [k \in Keys |-> NoEntry]
  /\ caching_enabled = TRUE
  /\ now = 0
  /\ h_last = NoHybridCall
  /\ written_since = [k \in Keys |-> FALSE]
  /\ cache_others = [t \in Ticks |-> IF t = 0 THEN others ELSE 0]
  /\ cache_hits = 0
  /\ cache_misses = 0
  /\ c_last = NoCacheCall
  /\ c_prev = NoCacheCall

\* PerformanceMonitor's constructor.
MetricsInit ==
  /\ total_operations = 0
  /\ successful_operations = 0
  /\ failed_operations = 0
  /\ active_operations = {}

\* Node::start on every node: the loop and the network manager run.
NodeInit ==
  /\ running = [n \in Nodes |-> TRUE]
  /\ nm_running = [n \in Nodes |-> TRUE]
  /\ left_at_stop = [n \in Nodes |-> 0]

\* No thread is inside an operation.
LockInit ==
  /\ held = [t \in Threads |-> {}]
  /\ lk_pc = [t \in Threads |-> IdleThread]

\* The message msg, not yet serialized.
WireInit(msg) ==
  /\ w_msg = msg
  /\ w_data = NoData
  /\ w_out = NotDeserialized

\* HybridProtocol's constructor: adaptive switching and intelligent routing
\* on, reads preferring the chain and writes the quorum, default metrics.
RoutingInit ==
  /\ adaptive_switching_enabled = TRUE
  /\ intelligent_routing_enabled = TRUE
  /\ read_preference = "CHAIN_ONLY"
  /\ write_preference = "QUORUM_ONLY"
  /\ current_metrics = DefaultMetrics
  /\ current_mode = "HYBRID_AUTO"
  /\ h_wlast = NoHybridWrite
  /\ switching_threshold = SwitchingThreshold
  /\ chain_operations = 0
  /\ quorum_operations = 0
  /\ read_count = 0
  /\ write_count = 0
  /\ h_reads = 0
  /\ h_writes = 0
  /\ metrics_stuck = FALSE
  /\ h_partition = FALSE
  /\ h_snapshot = FALSE
  /\ cw_pc = "idle"
  /\ cw_req = NoRequest
  /\ cr_pc = "idle"
  /\ cr_req = NoRequest

\* The parts of the program outside the cache and the coordinators.
RestInit ==
  /\ MetricsInit
  /\ NodeInit
  /\ LockInit
  /\ WireInit(DefaultMessage)
  /\ RoutingInit

\* HybridProtocol's constructor: caching on, an empty cache; and the rest.
CacheInit ==
  /\ CacheInitFilled(0)
  /\ RestInit

\* -------------------------------------------- specification: membership
\* One coordinator (node 1) under membership calls, the adaptive switch and
\* the requests that move its success counters; no acceptor answers.
MembershipInit ==
  /\ \E members \in QuorumChoices : QuorumInit(members)
  /\ ChainInit(<<1, 2, 3>>)
  /\ CacheInit

MembershipNext ==
  \/ \E id \in MemberIds : QHandleNodeFailure(1, id)
  \/ \E id \in MemberIds : QHandleNodeRecovery(1, id)
  \/ \E members \in QuorumChoices : update_quorum_nodes(1, members)
  \/ \E enable \in BOOLEAN : enable_adaptive_quorum(1, enable)
  \/ adjust_quorum_size_based_on_load(1)
  \/ process_write_single(1, "k1", "a")
  \/ \E k \in Keys : process_read_single(1, k)

SpecMembership == MembershipInit /\ [][MembershipNext]_vars

\* ------------------------------------------------- specification: consensus
\* Three members, each with its coordinator and store; every member may
\* propose; a message that was sent is handed to the receiver's handler.
ConsensusInit ==
  /\ QuorumInit(<<1, 2, 3>>)
  /\ ChainInit(<<1, 2, 3>>)
  /\ CacheInit

Deliver ==
  \E m \in net :
    \/ handle_prepare(m)
    \/ handle_promise(m)
    \/ handle_accept(m)
    \/ handle_accepted(m)

\* The members that propose, and the value each one writes.
Proposers == {1, 2}
ProposedValue(n) == IF n = 1 THEN "a" ELSE "b"

ConsensusNext ==
  \/ \E n \in Proposers : process_write_start(n, "k1", ProposedValue(n))
  \/ \E n \in Nodes : process_write_commit(n)
  \/ \E n \in Nodes : process_write_timeout(n)
  \/ Deliver
  \/ QHandleNodeFailure(1, 3)
  \/ \E n \in Proposers, enable \in BOOLEAN : enable_adaptive_quorum(n, enable)

SpecConsensus == ConsensusInit /\ [][ConsensusNext]_vars

\* --------------------------------------------- specification: chain writes
\* The chain 1 -> 2 -> 3: clients write at the head or at node 2, the head's
\* batching is switched and resized, sent messages reach the inbound queues
\* and the message loops take them off.
ChainInitial ==
  /\ QuorumInit(<<1, 2, 3>>)
  /\ ChainInit(<<1, 2, 3>>)
  /\ CacheInit

ChainNext ==
  \/ \E n \in {1, 2}, k \in Keys, v \in Values : chain_process_write(n, k, v)
  \/ \E enable \in BOOLEAN : enable_batching(1, enable)
  \/ \E size \in BatchSizes : set_batch_size(1, size)
  \/ \E m \in net : handle_message(m)
  \/ \E n \in Nodes : process_incoming_message(n)

SpecChain == ChainInitial /\ [][ChainNext]_vars

\* ---------------------------------------- specification: chain membership
\* One chain coordinator (node 1) under membership calls.
ChainMembershipInit ==
  /\ QuorumInit(<<1, 2, 3>>)
  /\ \E order \in ChainChoices : ChainInit(order)
  /\ CacheInit

ChainMembershipNext ==
  \/ \E id \in Nodes : chain_handle_node_failure(1, id)
  \/ \E id \in Nodes : chain_handle_node_recovery(1, id)
  \/ \E order \in ChainChoices : update_chain_order(1, order)

SpecChainMembership == ChainMembershipInit /\ [][ChainMembershipNext]_vars

\* ------------------------------------------ specification: chain requests
\* One chain coordinator (node 1), constructed with any of the chains, that
\* serves reads and writes while failures shorten its chain.
ChainRequestsInit == ChainMembershipInit

ChainRequestsNext ==
  \/ \E id \in Nodes : chain_handle_node_failure(1, id)
  \/ \E enable \in BOOLEAN : enable_batching(1, enable)
  \/ \E k \in Keys : chain_process_read(1, k)
  \/ \E k \in Keys, v \in Values :
       ch_seq < MaxRequestWrites /\ chain_process_write(1, k, v)

SpecChainRequests == ChainRequestsInit /\ [][ChainRequestsNext]_vars

\* ------------------------------------------------- specification: cache
\* The dispatcher of a single-node cluster (node 1 is the whole chain and the
\* whole quorum) with its cache, the clock, and QUORUM_ACCEPT messages from a
\* peer whose quorum list still names node 1.
CacheSpecInit ==
  /\ QuorumInit(<<1>>)
  /\ ChainInit(<<1>>)
  /\ CacheInit

CacheNext ==
  \/ \E k \in Keys : h_reads < MaxCacheReads /\ hybrid_process_read(k)
  \/ \E k \in Keys, v \in Values :
       fast_ops[HNode] < MaxCacheWrites /\ hybrid_process_write(k, v)
  \/ \E enable \in BOOLEAN : enable_caching(enable)
  \/ Tick
  \/ \E k \in Keys : handle_accept(Msg("QUORUM_ACCEPT", 2, HNode, 1, k, "b"))

SpecCache == CacheSpecInit /\ [][CacheNext]_vars

\* ---------------------------------------- specification: cache operations
\* The cache of one dispatcher under direct calls of its operations, from an
\* empty map, a map one entry short of MaxCacheEntries and a full map.
CacheFills == {0, MaxCacheEntries - 1, MaxCacheEntries}

CacheOpsInit ==
  /\ QuorumInit(<<1>>)
  /\ ChainInit(<<1>>)
  /\ \E others \in CacheFills : CacheInitFilled(others)
  /\ RestInit

CacheOpsNext ==
  \/ \E k \in Keys, v \in Values : cache_update(k, v)
  \/ cache_update_other
  \/ \E k \in Keys : cache_try_read(k)
  \/ \E k \in Keys : cache_invalidate(k)
  \/ Tick

SpecCacheOps == CacheOpsInit /\ [][CacheOpsNext]_vars

\* ------------------------------------------------ specification: dispatcher
\* The dispatcher of a single-node cluster with caching on: reads, writes and
\* the clock.
DispatchNext ==
  \/ \E k \in Keys : h_reads < MaxDispatchReads /\ hybrid_process_read(k)
  \/ \E k \in Keys, v \in Values :
       fast_ops[HNode] < MaxCacheWrites /\ hybrid_process_write(k, v)
  \/ Tick

SpecDispatch == CacheSpecInit /\ [][DispatchNext]_vars

\* ------------------------------------------------- specification: metrics
\* One PerformanceMonitor under start_operation, end_operation and
\* reset_metrics calls, with ids that repeat and ids that are not in progress.
MetricsSpecInit ==
  /\ QuorumInit(<<1, 2, 3>>)
  /\ ChainInit(<<1, 2, 3>>)
  /\ CacheInit

MetricsNext ==
  \/ \E id \in OpIds : start_operation(id)
  \/ \E id \in OpIds, success \in BOOLEAN : end_operation(id, success)
  \/ reset_metrics

SpecMetrics == MetricsSpecInit /\ [][MetricsNext]_vars

\* ------------------------------------------- specification: quorum requests
\* Clusters of one, two and three members; node 1 serves reads and writes with
\* adaptive quorum on or off, and a message that was sent is handed to the
\* receiver's handler.
RequestQuorums == {<<1>>, <<1, 2>>, <<1, 2, 3>>}

RequestsInit ==
  /\ \E members \in RequestQuorums : QuorumInit(members)
  /\ ChainInit(<<1, 2, 3>>)
  /\ CacheInit

RequestsNext ==
  \/ \E k \in Keys : process_write_single(1, k, "a")
  \/ \E k \in Keys : process_read_single(1, k)
  \/ \E k \in Keys : process_read_fast_path(1, k)
  \/ process_write_start(1, "k1", "a")
  \/ process_read_start(1, "k1")
  \/ process_write_commit(1)
  \/ process_write_timeout(1)
  \/ process_read_majority(1)
  \/ process_read_timeout(1)
  \/ Deliver
  \/ \E enable \in BOOLEAN : enable_adaptive_quorum(1, enable)

SpecRequests == RequestsInit /\ [][RequestsNext]_vars

\* ------------------------------------------ specification: silent acceptors
\* Clusters of two and three members in which no acceptor ever handles a
\* message: the proposers start writes and their polling loops run out. The
\* loop re-reads the clock every 10 ms, so a waiting call does reach its deadline.
NoAcceptorInit ==
  /\ \E members \in RequestQuorums \ {<<1>>} : QuorumInit(members)
  /\ ChainInit(<<1, 2, 3>>)
  /\ CacheInit

NoAcceptorNext ==
  \/ \E n \in Proposers, k \in Keys, v \in Values : process_write_start(n, k, v)
  \/ \E n \in Proposers : process_write_timeout(n)

SpecNoAcceptor ==
  /\ NoAcceptorInit
  /\ [][NoAcceptorNext]_vars
  /\ \A n \in Proposers : WF_vars(process_write_timeout(n))

\* ---------------------------------------------- specification: shutdown
\* The chain 1 -> 2 -> 3: clients write at the head, with batching on or off,
\* the messages reach the inbound queues, the loops take them off, and nodes
\* 1 and 2 are stopped and started again.
ShutdownNodes == {1, 2}

ShutdownNext ==
  \/ \E v \in Values : chain_process_write(1, "k1", v)
  \/ \E enable \in BOOLEAN : enable_batching(1, enable)
  \/ \E m \in net : handle_message(m)
  \/ \E n \in Nodes : process_incoming_message(n)
  \/ \E n \in ShutdownNodes : stop(n)
  \/ \E n \in ShutdownNodes : start(n)

SpecShutdown == ChainInitial /\ [][ShutdownNext]_vars

\* ------------------------------------------------- specification: locks
\* Two threads call the operations of one node's coordinators and dispatcher.
LocksNext ==
  \/ \E t \in Threads, op \in LockOps : call_operation(t, op)
  \/ \E t \in Threads : lock(t)
  \/ \E t \in Threads : unlock(t)

SpecLocks == ChainInitial /\ [][LocksNext]_vars

\* -------------------------------------------------- specification: wire
\* One message, serialized and deserialized. Strings with and without
\* characters, with a comma and with a pipe; lists of no, one and two targets.
WireStrings == {<<>>, <<"k">>, <<"a", ",", "1">>, <<"a", "|", "b">>}

WireMessages ==
  [type : {0, 10}, sender_id : {0, 12}, receiver_id : {3},
   key : WireStrings, value : {<<>>, <<"v">>}, success : BOOLEAN,
   timestamp : {0, 105}, sequence_number : {7}, correlation_id : {<<>>, <<"c">>},
   target_nodes : {<<>>, <<2>>, <<1, 23>>}, metadata : WireStrings]

WireSpecInit ==
  /\ QuorumInit(<<1, 2, 3>>)
  /\ ChainInit(<<1, 2, 3>>)
  /\ CacheInitFilled(0)
  /\ MetricsInit
  /\ NodeInit
  /\ LockInit
  /\ RoutingInit
  /\ \E msg \in WireMessages : WireInit(msg)

WireNext ==
  \/ serialize_message
  \/ deserialize_message

SpecWire == WireSpecInit /\ [][WireNext]_vars

\* ------------------------------------------------ specification: routing
\* The dispatcher of a single-node cluster under reads and writes of one key
\* while its routing switches, preferences and workload metrics change.
RoutingNext ==
  \/ h_reads < MaxRoutedReads /\ hybrid_process_read("k1")
  \/ fast_ops[HNode] + ch_seq < MaxRoutedWrites /\ hybrid_process_write("k1", "a")
  \/ \E enable \in BOOLEAN : enable_adaptive_switching(enable)
  \/ \E enable \in BOOLEAN : enable_intelligent_routing(enable)
  \/ \E mode \in Modes : set_read_preference(mode)
  \/ \E mode \in Modes : set_write_preference(mode)
  \/ \E metrics \in MetricsChoices : update_workload_metrics(metrics)

SpecRouting == CacheSpecInit /\ [][RoutingNext]_vars

\* -------------------------------------------- specification: batch flush
\* The chain 1 -> 2 -> 3 with the head's batch of two writes: clients write
\* at the head, and every message that was sent does reach its queue and
\* is taken off by the loop.
BatchFlushInit ==
  /\ QuorumInit(<<1, 2, 3>>)
  /\ ChainInit(<<1, 2, 3>>)
  /\ CacheInit

BatchFlushNext ==
  \/ \E k \in Keys, v \in Values :
       ch_seq < MaxBatchWrites /\ chain_process_write(1, k, v)
  \/ \E size \in BatchSizes : set_batch_size(1, size)
  \/ \E m \in net : handle_message(m)
  \/ \E n \in Nodes : process_incoming_message(n)

SpecBatchFlush ==
  /\ BatchFlushInit
  /\ [][BatchFlushNext]_vars
  /\ WF_vars(\E m \in net : handle_message(m))
  /\ WF_vars(\E n \in Nodes : process_incoming_message(n))

\* ------------------------------------------- specification: mode selection
\* The dispatcher of a single-node cluster under metrics updates of every
\* kind (latencies above 100 ms included), threshold changes, the adaptive
\* switch, network partitions, and a few reads and writes of one key.
SelectionMetrics ==
  {Metrics(ratio, latency, throughput, probability, nodes, "UNKNOWN") :
     ratio \in {4, 10, 31}, latency \in {0, 101}, throughput \in {0, 1},
     probability \in {20, 21}, nodes \in {3, 5}}

ModeSelectionNext ==
  \/ \E metrics \in SelectionMetrics : update_workload_metrics(metrics)
  \/ \E threshold \in ThresholdChoices : set_switching_threshold(threshold)
  \/ \E enable \in BOOLEAN : enable_adaptive_switching(enable)
  \/ handle_network_partition
  \/ h_reads < MaxSelectionReads /\ hybrid_process_read("k1")
  \/ h_writes < MaxSelectionWrites /\ hybrid_process_write("k1", "a")

SpecModeSelection == CacheSpecInit /\ [][ModeSelectionNext]_vars

\* --------------------------------------- specification: responsive quorum
\* A quorum of two or of three members, all of them answering: members 1 and
\* 2 propose writes with adaptive quorum on or off, every message that was
\* sent is handed to its receiver's handler, and the polling loop of
\* initiate_consensus gives up only when no message is left to handle.
ResponsiveQuorums == {<<1, 2>>, <<1, 2, 3>>}

ResponsiveInit ==
  /\ \E members \in ResponsiveQuorums : QuorumInit(members)
  /\ ChainInit(<<1, 2, 3>>)
  /\ CacheInit

ResponsiveNext ==
  \/ \E n \in Proposers : process_write_start(n, "k1", ProposedValue(n))
  \/ \E n \in Nodes : process_write_commit(n)
  \/ \E n \in Nodes : net = {} /\ process_write_timeout(n)
  \/ Deliver
  \/ \E n \in Proposers, enable \in BOOLEAN : enable_adaptive_quorum(n, enable)

SpecResponsive ==
  /\ ResponsiveInit
  /\ [][ResponsiveNext]_vars
  /\ WF_vars(Deliver)
  /\ WF_vars(\E n \in Nodes : process_write_commit(n))
  /\ WF_vars(\E n \in Nodes : net = {} /\ process_write_timeout(n))

\* ------------------------------------------------ specification: phases
\* Three members; member 1 proposes writes while its coordinator is told of
\* failures (of member 3 and of its own node), and every message that was
\* sent is handed to its receiver's handler in any order.
PhasesNext ==
  \/ process_write_start(1, "k1", "a")
  \/ process_write_commit(1)
  \/ process_write_timeout(1)
  \/ Deliver
  \/ \E id \in {1, 3} : QHandleNodeFailure(1, id)

SpecPhases == ConsensusInit /\ [][PhasesNext]_vars

\* ----------------------------------- specification: concurrent dispatcher
\* One dispatcher on a cluster of one node, called by a writing and a reading
\* thread whose calls interleave.
ConcurrentNext ==
  \/ \E k \in Keys, v \in Values :
       h_writes < MaxConcurrentWrites /\ write_invalidate(k, v)
  \/ write_store
  \/ \E k \in Keys : h_reads < MaxConcurrentReads /\ read_cache(k)
  \/ read_fetch
  \/ read_fill

SpecConcurrent == CacheSpecInit /\ [][ConcurrentNext]_vars

\* ------------------------------------- specification: dispatcher membership
\* One dispatcher whose chain and quorum are constructed with the same member
\* list, under failure and recovery calls.
MemberLists == {<<1, 2>>, <<1, 2, 3>>}

HybridMembershipInit ==
  /\ \E members \in MemberLists : QuorumInit(members) /\ ChainInit(members)
  /\ CacheInit

HybridMembershipNext ==
  \/ \E id \in Nodes :
       /\ current_metrics.active_nodes > -MaxNodeDrift
       /\ hybrid_handle_node_failure(id)
  \/ \E id \in Nodes :
       /\ current_metrics.active_nodes < MaxNodeDrift
       /\ hybrid_handle_node_recovery(id)

SpecHybridMembership == HybridMembershipInit /\ [][HybridMembershipNext]_vars

\* ------------------------------------------------------------------ C1
\* C1 as stated: after every handle_node_failure, handle_node_recovery or
\* update_quorum_nodes, with adaptive quorum enabled or disabled, quorum_size
\* is floor(N/2)+1 for the current member count N.
C1_AsStated ==
  \A n \in Nodes :
    q_call[n] \in {"failure", "failure_adaptive", "failure_nonmember",
                   "recovery", "recovery_member", "update"}
      => quorum_size[n] = (Len(quorum_nodes[n]) \div 2) + 1

\* C1 amended: after update_quorum_nodes, after a handle_node_recovery that
\* added a member, and after a handle_node_failure that removed a member while
\* adaptive quorum was disabled, quorum_size is floor(N/2)+1.
C1_MembershipMajority ==
  \A n \in Nodes :
    q_call[n] \in {"failure", "recovery", "update"}
      => quorum_size[n] = (Len(quorum_nodes[n]) \div 2) + 1

\* Node 1 has removed a member with adaptive quorum disabled and three
\* members are left.
C1_Witness ==
  /\ q_call[1] = "failure"
  /\ Len(quorum_nodes[1]) = 3
  /\ quorum_size[1] = 2

\* ------------------------------------------------------------------ C2
\* C2: in a quorum of more than one member, process_write returns success
\* only if at least floor(N/2)+1 distinct members of the current quorum set
\* have replied QUORUM_ACCEPTED for the write's proposal number.
C2_SuccessNeedsMemberMajority ==
  \A n \in Nodes :
    (q_last[n].op = "write" /\ q_last[n].path = "consensus" /\ q_last[n].success)
      => q_last[n].replied >= (q_last[n].total_nodes \div 2) + 1

\* ------------------------------------------------------------------ C3
\* Both proposers' process_write calls have returned success, no coordinator
\* is waiting, no message is left unhandled, membership never changed.
C3_Quiescent ==
  /\ net = {}
  /\ \A n \in Nodes : q_pc[n] = "idle" /\ quorum_nodes[n] = <<1, 2, 3>>
  /\ \A n \in Proposers :
       q_last[n].op = "write" /\ q_last[n].path = "consensus" /\ q_last[n].success

\* C3: when two members run write consensus for the same key with different
\* values, then once every message has been delivered and handled, every
\* member's local store holds the same value for that key.
C3_ReplicasAgree ==
  C3_Quiescent => \A m, n \in Nodes : data_store[m]["k1"] = data_store[n]["k1"]

\* ------------------------------------------------------------------ C4
\* C4: a cache hit in try_cache_read returns only an entry with
\* now - stored_at < ttl; an entry found with now - stored_at >= ttl is
\* erased and the lookup is reported as a miss.
C4_CacheHitIsFresh ==
  /\ h_last.from_cache => (h_last.found /\ h_last.age < 30000000)
  /\ (h_last.found /\ h_last.age >= 30000000)
       => (~h_last.from_cache /\ ~h_last.left_present)

\* A read has found an entry at least ttl old: it missed and the entry was erased.
C4_Witness ==
  /\ h_last.op = "read" /\ h_last.found /\ h_last.age >= 30000000
  /\ ~h_last.from_cache /\ ~h_last.left_present

\* ------------------------------------------------------------------ C5
\* C5: after a write of key k has gone through the dispatcher's process_write
\* or has been applied by the node's QUORUM_ACCEPT handler, the cache holds no
\* entry for k that was stored before that write, whatever enable_caching
\* calls were made.
C5_NoEntryPredatesWrite ==
  \A k \in Keys : cache[k].present => ~written_since[k]

\* ------------------------------------------------------------------ C6
\* C6: chain process_read at a node that is not the tail makes no Node::read
\* call, returns success=false, and sends the unchanged request to the last
\* node of the chain when the chain is non-empty (nothing when it is empty).
C6_NonTailReadForwards ==
  \A n \in Nodes :
    ch_last[n].op = "read" =>
      /\ ch_last[n].last_node # n => ch_last[n].path = "forward"
      /\ ch_last[n].path = "forward" =>
           /\ ~ch_last[n].success
           /\ ch_last[n].store_reads = 0
           /\ ch_last[n].sent =
                IF ch_last[n].chain_len > 0
                THEN {Msg("READ_REQUEST", DefaultSenderId, ch_last[n].last_node, 0,
                          ch_last[n].key, EmptyValue)}
                ELSE {}

\* Node 1, head of a chain of three whose store holds the key, was asked to
\* read it and forwarded the request to node 3.
C6_Witness ==
  /\ ch_last[1].op = "read" /\ ch_last[1].path = "forward"
  /\ ch_last[1].chain_len = 3 /\ ch_last[1].last_node = 3
  /\ data_store[1][ch_last[1].key] = "a"
  /\ ~ch_last[1].success

\* ------------------------------------------------------------------ C7
\* C7: after construction, update_chain_order, handle_node_failure and
\* handle_node_recovery, my_position is the (first) index of the node's own
\* id in the chain, or the chain's length when the id is absent; so
\* my_position <= len(chain).
C7_PositionIsIndex ==
  \A n \in Nodes :
    LET c == chain_order[n]
        p == my_position[n]
    IN  /\ p <= Len(c)
        /\ (\E i \in 1..Len(c) : c[i] = n)
             => (p < Len(c) /\ c[p + 1] = n /\ \A j \in 1..p : c[j] # n)
        /\ (\A i \in 1..Len(c) : c[i] # n) => p = Len(c)

\* Node 1 has removed itself from a chain that keeps two other entries.
C7_Witness ==
  /\ ch_call[1] = "failure"
  /\ Len(chain_order[1]) = 2
  /\ \A i \in 1..2 : chain_order[1][i] # 1
  /\ my_position[1] = 2

\* ------------------------------------------------------------------ C8
\* No message is on its way to a node and no inbound queue holds one.
ChainQuiescent ==
  /\ \A m \in net : m.receiver \notin Nodes
  /\ \A n \in Nodes : message_queue[n] = <<>>

\* C8: with chain 1 -> 2 -> 3 and batching disabled, a write at head 1 gets
\* the response success=true, WRITE_RESPONSE, and is applied at nodes 1, 2
\* and 3: once nothing is left to deliver or handle, all three have applied it.
C8_HeadWriteReachesAll ==
  (ChainQuiescent /\ ch_last[1].op = "write" /\ ch_last[1].path = "direct")
    => /\ ch_last[1].success /\ ch_last[1].kind = "WRITE_RESPONSE"
       /\ \A n \in Nodes :
            \E i \in 1..Len(applied[n]) : applied[n][i].seq = ch_last[1].seq

\* ------------------------------------------------------------------ C9
\* C9: at the head, two writes of the same key that process_write accepted in
\* a given order are applied to the local store in that order, whatever
\* enable_batching and set_batch_size calls come between them.
C9_AppliedInAcceptOrder ==
  \A i, j \in 1..Len(applied[1]) :
    (i < j /\ applied[1][i].key = applied[1][j].key)
      => applied[1][i].seq < applied[1][j].seq

\* ------------------------------------------------------------------ C10
\* C10: when handle_node_failure has removed every node of the chain, chain
\* process_write returns success=false and sends no message, and chain
\* process_read returns success=false.
C10_EmptyChainRejects ==
  \A n \in Nodes :
    (ch_call[n] = "failure" /\ chain_order[n] = <<>>
       /\ ch_last[n].op # "none" /\ ch_last[n].chain_len = 0)
      => (~ch_last[n].success /\ ch_last[n].sent = {})

C12_TwoMembersNeedBoth ==
  \A n \in Nodes :
    Len(quorum_nodes[n]) = 2 =>
      /\ quorum_size[n] = 2
      /\ (q_last[n].op = "write" /\ q_last[n].path = "consensus" /\ q_last[n].success)
           => q_last[n].replied = 1
      /\ (/\ q_pc[n] = "write_wait"
          /\ net = {}
          /\ q_cur[n].pn \in DOMAIN active_proposals[n]
          /\ \A p \in Range(quorum_nodes[n]) \ {n} :
               p \in active_proposals[n][q_cur[n].pn].promised_nodes)
           => active_proposals[n][q_cur[n].pn].phase = "COMMIT"

C14_SmallQuorumKeepsMajority ==
  \A n \in Nodes :
    (/\ q_adjust[n].called
     /\ q_adjust[n].total_nodes \in {1, 2}
     /\ q_adjust[n].before = (q_adjust[n].total_nodes \div 2) + 1)
      => q_adjust[n].after = (q_adjust[n].total_nodes \div 2) + 1

\* ------------------------------------------------------------------ C15
\* C15: after any sequence of membership changes and
\* adjust_quorum_size_based_on_load calls, at every success rate, quorum_size
\* never exceeds the number of quorum members N (N >= 1).
C15_SizeAtMostMembers ==
  \A n \in Nodes :
    Len(quorum_nodes[n]) >= 1 => quorum_size[n] <= Len(quorum_nodes[n])

\* ------------------------------------------------------------------ C16
\* C16: each adjust_quorum_size_based_on_load call with success rate below
\* 0.80 raises quorum_size by 1 unless it is already N, each call with rate
\* above 0.95 lowers it by 1 unless that would go below 3, and a call with a
\* rate in between leaves it unchanged (N >= 1 members, quorum_size at most N
\* when the call is made).
C16_AdjustStepsByOne ==
  \A n \in Nodes :
    (q_adjust[n].called /\ q_adjust[n].total_nodes >= 1
       /\ q_adjust[n].before <= q_adjust[n].total_nodes) =>
      LET r == q_adjust[n]
      IN  /\ r.rate = "below_0.80"
               => r.after = (IF r.before = r.total_nodes THEN r.before ELSE r.before + 1)
          /\ r.rate = "above_0.95"
               => r.after = (IF r.before - 1 < 3 THEN r.before ELSE r.before - 1)
          /\ r.rate = "between" => r.after = r.before

\* ------------------------------------------------------------------ C17
\* C17: for every key k, value v and cache content (a full cache and entries
\* of equal stored_at included), update(k,v) followed by try_read(k) within
\* the TTL returns v, and invalidate(k) followed by try_read(k) returns none.
C17_UpdateThenRead ==
  /\ (/\ c_last.op = "try_read" /\ c_prev.op = "update"
      /\ c_prev.key = c_last.key
      /\ c_last.at - c_prev.at < 30000000)
       => (c_last.hit /\ c_last.value = c_prev.value)
  /\ (c_last.op = "try_read" /\ c_prev.op = "invalidate" /\ c_prev.key = c_last.key)
       => ~c_last.hit

\* ------------------------------------------------------------------ C18
\* C18: the cache never holds more than 1000 entries after update returns:
\* inserting a new key into a cache of exactly 1000 entries evicts exactly
\* one entry, and that entry has the smallest stored_at of all entries.
C18_AtMostMaxEntries ==
  c_last.op = "update" =>
    /\ c_last.size_after <= 1000
    /\ (c_last.was_new /\ c_last.size_before = 1000)
         => /\ c_last.size_after = 1000
            /\ c_last.evicted_at # -1
            /\ c_last.evicted_at = c_last.min_at

\* A new key was inserted into a cache of 1000 entries after the clock had
\* moved on: one entry of the first clock reading was evicted.
C18_Witness ==
  /\ c_last.op = "update" /\ c_last.was_new /\ c_last.key = "k1"
  /\ c_last.size_before = 1000 /\ c_last.size_after = 1000
  /\ c_last.at > 0 /\ c_last.evicted_at = 0
  /\ cache["k1"].present

C20_CountersAddUp ==
  successful_operations + failed_operations = total_operations

\* ------------------------------------------------------------------ C21
\* C21: no thread ever holds two of the store, peers, chain, quorum, cache
\* and metrics mutexes at once, in any operation of the chain coordinator,
\* the quorum coordinator or the dispatcher.
C21_AtMostOneMutexHeld ==
  \A t \in Threads : Cardinality(held[t]) <= 1

\* ------------------------------------------------------------------ C22
\* C22: every message handle_message put into the inbound queue before stop()
\* was called has been taken off and processed when stop() returns: a stopped
\* node's queue held nothing when its stop() returned.
C22_StopDrainsQueue ==
  \A n \in Nodes : ~running[n] => left_at_stop[n] = 0

\* ------------------------------------------------------------------ C23
\* C23: when the transport rejects the CHAIN_FORWARD message of a write
\* (NetworkManager::send_message returns false), the head's process_write
\* returns success=false.
C23_RejectedForwardFails ==
  \A n \in Nodes :
    (/\ ch_last[n].op = "write" /\ ch_last[n].path = "direct"
     /\ \E m \in ch_last[n].sent : m.type = "CHAIN_FORWARD"
     /\ ~ch_last[n].transport_ok)
    => ~ch_last[n].success

\* ------------------------------------------------------------------ C24
\* No string field of the message holds a pipe character.
C24_NoPipe ==
  \A field \in {w_msg.key, w_msg.value, w_msg.correlation_id, w_msg.metadata} :
    PipeChar \notin Range(field)

\* C24: for every message whose string fields hold no pipe character,
\* deserialize(serialize(m)) equals m in every field, also with empty key,
\* value, correlation id and metadata and with an empty target list.
C24_RoundTrip ==
  (w_out.done /\ C24_NoPipe) => (~w_out.threw /\ w_out.msg = w_msg)

\* A message with empty strings and no targets went through both conversions.
C24_Witness ==
  /\ w_out.done /\ ~w_out.threw
  /\ w_msg.key = <<>> /\ w_msg.value = <<>> /\ w_msg.correlation_id = <<>>
  /\ w_msg.metadata = <<>> /\ w_msg.target_nodes = <<>>
  /\ w_out.msg = w_msg

\* ------------------------------------------------------------------ C25
\* C25: a quorum read's consensus skips the accept phase: while process_read
\* waits for its proposal, no QUORUM_ACCEPT of that proposal has been sent,
\* and no store holds the read proposal's (empty) value.
C25_ReadSendsNoAccept ==
  /\ \A n \in Nodes :
       q_pc[n] = "read_wait" =>
         ~\E m \in net : /\ m.type = "QUORUM_ACCEPT"
                         /\ m.sender = n
                         /\ m.seq = q_cur[n].pn
  /\ \A n \in Nodes, k \in Keys : data_store[n][k] # EmptyValue

\* ------------------------------------------------------------------ C26
\* C26: only a quorum of one member bypasses consensus on reads: with more
\* than one member, a process_read that returned a value of the local store
\* did so after a majority of promises for its proposal.
C26_LocalValueNeedsPromises ==
  \A n \in Nodes :
    (q_last[n].op = "read" /\ q_last[n].success /\ q_last[n].total_nodes > 1)
    => q_last[n].path = "consensus"

\* ------------------------------------------------------------------ C27
\* C27: the pending-write entry recorded when a write is forwarded is removed
\* once the CHAIN_ACK with its sequence number is delivered: when every
\* message has been delivered and handled, the pending-write tables are empty.
C27_PendingEmptyWhenDelivered ==
  ChainQuiescent => \A n \in Nodes : pending_writes[n] = {}

\* ------------------------------------------------------------------ C28
\* C28: every write accepted into the head's batch is eventually applied and
\* forwarded, also when no further write arrives: a batch that holds a write
\* is eventually emptied.
C28_BatchEventuallyFlushed ==
  (write_batch[1] # <<>>) ~> (write_batch[1] = <<>>)

\* ------------------------------------------------------------------ C29
\* The mode C29 states for a read, from the routing state before the call
\* (with adaptive switching on it states one for intelligent routing on only).
C29_StatedMode ==
  IF ~adaptive_switching_enabled THEN read_preference
  ELSE IF current_metrics.network_partition_probability > 20
          \/ current_metrics.pattern = "READ_HEAVY"
  THEN "CHAIN_ONLY"
  ELSE read_preference

\* C29: a dispatcher read that misses the cache is handled under
\* read_preference when adaptive switching is disabled; otherwise, with
\* intelligent routing on, under CHAIN_ONLY when the partition probability is
\* above 0.2 or the pattern is READ_HEAVY, and under read_preference otherwise.
C29_ReadModeAsStated ==
  [][\A k \in Keys :
       (/\ hybrid_process_read(k)
        /\ ~h_last'.from_cache
        /\ ~adaptive_switching_enabled \/ intelligent_routing_enabled)
       => h_last'.mode = C29_StatedMode]_vars

\* A read missed the cache with the pattern READ_HEAVY and another preference,
\* and was handled under CHAIN_ONLY.
C29_Witness ==
  /\ h_last.op = "read" /\ ~h_last.from_cache /\ h_last.mode = "CHAIN_ONLY"
  /\ adaptive_switching_enabled /\ intelligent_routing_enabled
  /\ current_metrics.pattern = "READ_HEAVY"
  /\ current_metrics.network_partition_probability <= 20
  /\ read_preference = "QUORUM_ONLY"

\* ------------------------------------------------------------------ C30
\* C30 as stated: a dispatcher write is handled under write_preference when
\* adaptive switching is disabled; otherwise under QUORUM_ONLY when the
\* pattern is WRITE_HEAVY, CHAIN_ONLY when it is BURSTY and write_preference
\* otherwise, for every setting of the other toggles.
C30_AsStated ==
  [][\A k \in Keys, v \in Values :
       hybrid_process_write(k, v)
       => h_wlast'.mode =
            IF ~adaptive_switching_enabled THEN write_preference
            ELSE IF current_metrics.pattern = "WRITE_HEAVY" THEN "QUORUM_ONLY"
            ELSE IF current_metrics.pattern = "BURSTY" THEN "CHAIN_ONLY"
            ELSE write_preference]_vars

\* C30, amended: the pattern decides only with intelligent routing on; with
\* adaptive switching or intelligent routing off the mode is write_preference.
C30_WriteModeRouted ==
  [][\A k \in Keys, v \in Values :
       hybrid_process_write(k, v)
       => h_wlast'.mode =
            IF ~adaptive_switching_enabled \/ ~intelligent_routing_enabled
            THEN write_preference
            ELSE IF current_metrics.pattern = "WRITE_HEAVY" THEN "QUORUM_ONLY"
            ELSE IF current_metrics.pattern = "BURSTY" THEN "CHAIN_ONLY"
            ELSE write_preference]_vars

\* A write was handled under CHAIN_ONLY because the pattern is BURSTY, against
\* the preference.
C30_Witness ==
  /\ h_wlast.op = "write" /\ h_wlast.mode = "CHAIN_ONLY"
  /\ adaptive_switching_enabled /\ intelligent_routing_enabled
  /\ current_metrics.pattern = "BURSTY"
  /\ write_preference = "QUORUM_ONLY"

\* ------------------------------------------------------------------ C31
\* C31: when update_workload_metrics has returned for a snapshot whose
\* read_write_ratio is above 3, select_optimal_mode does not return
\* QUORUM_ONLY, and for a ratio below 0.5 it does not return CHAIN_ONLY,
\* whatever the other fields of the snapshot and the (non-negative) threshold.
C31_RatioDecidesSide ==
  h_snapshot
    => /\ current_metrics.read_write_ratio > 30
            => select_optimal_mode(current_metrics) # "QUORUM_ONLY"
       /\ current_metrics.read_write_ratio < 5
            => select_optimal_mode(current_metrics) # "CHAIN_ONLY"

\* The write-heavy snapshot that favours the chain most (a partition likely,
\* fewer than five nodes) was stored with the threshold at 0, and the quorum
\* is selected.
C31_Witness ==
  /\ current_metrics.pattern = "WRITE_HEAVY"
  /\ current_metrics.read_write_ratio < 5
  /\ current_metrics.network_partition_probability > 20
  /\ current_metrics.active_nodes < 5
  /\ switching_threshold = 0
  /\ h_snapshot
  /\ select_optimal_mode(current_metrics) = "QUORUM_ONLY"

\* ------------------------------------------------------------------ C32
\* C32: after any sequence of completed dispatcher requests (at least one),
\* the dispatcher's read_write_ratio is reads / max(writes, 1), where reads
\* and writes count the process_read and process_write calls that returned.
C32_RatioIsReadsOverWrites ==
  h_reads + h_writes > 0
    => current_metrics.read_write_ratio = (10 * h_reads) \div Max(h_writes, 1)

\* ------------------------------------------------------------------ C33
\* C33: when chain handle_node_failure(id) returns, id does not occur in the
\* chain and my_position is the position find_my_position gives for the new
\* chain, whatever handle_node_failure and handle_node_recovery calls came
\* before.
C33_FailedIdIsGone ==
  [][\A id \in Nodes :
       chain_handle_node_failure(1, id)
         => /\ ~Contains(chain_order'[1], id)
            /\ my_position'[1] = find_my_position(chain_order'[1], 1)]_vars

\* ------------------------------------------------------------------ C34
\* C34: after handle_network_partition with adaptive switching enabled, the
\* current mode is CHAIN_ONLY and, until a metrics update selects another
\* mode, every read the cache does not answer and every write is handed to
\* the chain coordinator.
C34_PartitionRoutesToChain ==
  [][(h_partition /\ adaptive_switching_enabled)
       => /\ current_mode = "CHAIN_ONLY"
          /\ hybrid_process_write("k1", "a") => h_wlast'.protocol = "chain"
          /\ (hybrid_process_read("k1") /\ ~h_last'.from_cache)
               => h_last'.protocol = "chain"]_vars

\* ------------------------------------------------------------------ C35
\* C35: in a quorum of two or more responsive members whose messages are all
\* delivered and handled before the timeout, a write consensus that a member
\* has started reaches COMMIT and process_write returns success, with
\* adaptive quorum enabled or disabled.
C35_WriteEventuallySucceeds ==
  \A n \in Proposers :
    (q_pc[n] = "write_wait")
      ~> (q_pc[n] = "idle" /\ q_last[n].op = "write" /\ q_last[n].success)

\* ------------------------------------------------------------------ C36
\* C36: under every delivery order of QUORUM_PROMISE and QUORUM_ACCEPTED
\* messages, late promises included, a proposal that has reached COMMIT stays
\* in COMMIT while it is active, and no QUORUM_ACCEPT message is sent for a
\* proposal that has already left PREPARE.
C36_PhaseOnlyAdvances ==
  [][\A n \in Nodes : \A pn \in DOMAIN active_proposals[n] :
       /\ (pn \in DOMAIN active_proposals'[n] /\ active_proposals[n][pn].phase = "COMMIT")
            => active_proposals'[n][pn].phase = "COMMIT"
       /\ active_proposals[n][pn].phase # "PREPARE"
            => ~\E m \in net' \ net :
                   m.type = "QUORUM_ACCEPT" /\ m.sender = n /\ m.seq = pn]_vars

\* ------------------------------------------------------------------ C37
\* C37: update_workload_metrics returns for every snapshot, those with an
\* average latency above 100 ms included: no thread waits inside it for the
\* metrics mutex that it holds itself.
C37_UpdateReturns == ~metrics_stuck

\* ------------------------------------------------------------------ C40
\* C40: the votes counted toward a proposal's majority come from current
\* quorum members only: a QUORUM_PROMISE or QUORUM_ACCEPTED from a sender that
\* is not in the receiver's quorum list (it never was, or handle_node_failure
\* has removed it) adds nothing to promised_nodes or accepted_nodes.
C40_VotesFromMembersOnly ==
  [][\A n \in Nodes : \A pn \in DOMAIN active_proposals[n] :
       pn \in DOMAIN active_proposals'[n]
         => /\ (active_proposals'[n][pn].promised_nodes
                  \ active_proposals[n][pn].promised_nodes)
                 \subseteq Range(quorum_nodes[n])
            /\ (active_proposals'[n][pn].accepted_nodes
                  \ active_proposals[n][pn].accepted_nodes)
                 \subseteq Range(quorum_nodes[n])]_vars

\* C38: on a cluster of one node whose dispatcher is the only writer, whenever
\* no process_read and no process_write call is in progress, the cache entry of
\* a key, if present, holds the value the local store holds for the key.
C38_CacheEqualsStore ==
  (cw_pc = "idle" /\ cr_pc = "idle") =>
    \A k \in Keys : cache[k].present => cache[k].value = data_store[HNode][k]

\* C39: a dispatcher whose chain and quorum start from one duplicate-free member
\* list keeps, over handle_node_failure and handle_node_recovery calls, a chain
\* that names each id at most once and has exactly the quorum's members.
C39_ChainMatchesQuorum ==
  /\ \A i, j \in 1..Len(chain_order[HNode]) :
       chain_order[HNode][i] = chain_order[HNode][j] => i = j
  /\ Range(chain_order[HNode]) = Range(quorum_nodes[HNode])

====
